---- MODULE Spec2Model ----
(***************************************************************************)
(* A model of the cancelable Future (PPromise) of src/ppromise.ts: the     *)
(* settlement state machine, the observer lists, the map/then/catchCancel  *)
(* combinators and the all/allCompleted aggregation; and of the Stream     *)
(* (PStream) of src/pstream.ts: its buffer, its callback lists, the        *)
(* terminal transitions with shrinkMemory, flushData, listen and map; and   *)
(* of the utilities built on them: PubSub.publish and CreateBatch of       *)
(* src/unnamed/part_001, CreateParallelTaskManager of src/unnamed/part_000.*)
(*                                                                         *)
(* JavaScript runs one call to completion before the next one starts, so   *)
(* every action below is one top-level call of the program (a port method, *)
(* cancel, an observer registration, a combinator, a microtask) together   *)
(* with every callback it runs synchronously.  The callbacks are run by   *)
(* the recursive operators resolve/reject/cancel/_pipe/..., which thread   *)
(* the heap (the record w) through the calls exactly in the order of the  *)
(* source.  A call deeper than MaxDepth throws a RangeError to its caller, *)
(* as the engine's call stack does.                                        *)
(***************************************************************************)
EXTENDS Integers, Sequences, FiniteSets, TLC

VARIABLES
    pp,      \* the PPromise objects, by identity 1..Len(pp)
    hist,    \* hist[p]: every value assigned to pp[p].result, in order
    ast,     \* the state objects of _allState
    np,      \* native promises (awaitables that are no PPromise)
    jobs,    \* the microtask queue of the native promises
    obs,     \* the observer callbacks the application registered
    calls,   \* every invocation of an application observer, in order
    ucancel, \* the PPromises the application called cancel() on while Pending
    roots,   \* the PPromises made by $async (the application holds their port)
    derived, \* the map/then/catchCancel calls the application made
    aggs,    \* the all/allCompleted calls the application made
    awaits,  \* the port.return(awaitable) calls the application made
    pipes,   \* every exception a transform threw inside _pipe, in order
    tcalls,  \* every call _pipe made of a transform of the application, in order
    ps,      \* the PStream objects, by identity 1..Len(ps)
    sobs,    \* the callbacks the application registered on PStreams
    scalls,  \* every invocation of an application callback by a PStream
    raised,  \* the top-level calls on a PStream that threw to the application
    smaps,   \* the map calls the application made on PStreams
    mlog,    \* every call of a map transform by a PStream, in order
    bus,     \* a PubSub: its listeners, and the publish calls made on it
    batch,   \* a CreateBatch: its queue and timer, and the batches it ran
    tm       \* a function made by CreateParallelTaskManager, and its tasks

fvars == <<pp, hist, ast, np, jobs, obs, calls, ucancel, roots, derived, aggs, awaits,
           pipes, tcalls>>
svars == <<ps, sobs, scalls, raised, smaps, mlog>>
uvars == <<bus, batch, tm>>
vars == <<pp, hist, ast, np, jobs, obs, calls, ucancel, roots, derived, aggs, awaits,
          pipes, tcalls,
          ps, sobs, scalls, raised, smaps, mlog, bus, batch, tm>>

----------------------------------------------------------------------------
(* Bounds of the model. *)

MaxSources == 1
MaxDerived == 2
MaxAggs == 1
MaxElems == 2
MaxObs == 2
MaxVal == 2
MaxStreams == 1
MaxEmits == 3
MaxSObs == 2
MaxSMaps == 1
MaxListeners == 2
MaxPublish == 2
MaxJobs == 4
MaxParallel == 2
MaxTasks == 5
MaxChain == 2
MaxAwaits == 3

\* the frames of the call stack: room for MaxEmits emits nested in one another
\* from inside listen callbacks (emit, _listen and the callback: 3 frames each),
\* so that only a recursion without end exhausts it
MaxDepth == 3 * MaxEmits - 1

----------------------------------------------------------------------------
(* Values. *)

Undef == [k |-> "undef", n |-> 0]
Num(n) == [k |-> "num", n |-> n]
Err(n) == [k |-> "err", n |-> n]
RangeError == [k |-> "RangeError", n |-> 0]
TypeError == [k |-> "TypeError", n |-> 0]
PRef(p) == [k |-> "pp", n |-> p]
NRef(q) == [k |-> "np", n |-> q]
Arr(a) == [k |-> "arr", n |-> Len(a), a |-> a]
\* the value a user transform returns: the application of transform fid to arg
Ret(fid, arg) == [k |-> "ret", n |-> fid, a |-> <<arg>>]
\* the value a user transform throws when it is applied to arg
Exc(fid, arg) == [k |-> "exc", n |-> fid, a |-> <<arg>>]

CancelError == [k |-> "CancelError", n |-> 0]

isPromiseLike(v) == v.k \in {"pp", "np"}

(* Callables: bound methods, bound _pipe, user transforms, observers. *)
NoFn == [n |-> "none", p |-> 0, i |-> 0]
Bind(name, p) == [n |-> name, p |-> p, i |-> 0]
PipeBind(f, g, p) == [n |-> "_pipe", p |-> p, i |-> 0, f |-> f, g |-> g]
UserFn(fid) == [n |-> "fn", p |-> fid, i |-> 0]
ThrowFn(fid) == [n |-> "throw", p |-> fid, i |-> 0]
ThrowCancel == [n |-> "ThrowCancel", p |-> 0, i |-> 0]
VoidFn == [n |-> "VoidFn", p |-> 0, i |-> 0]
AllBind(name, sid, i) == [n |-> name, p |-> sid, i |-> i]
BatchBind(name, promises) == [n |-> name, p |-> 0, i |-> 0, ps |-> promises]
ObsFn(o) == [n |-> "obs", p |-> o, i |-> 0]

(* What a call gives back: the heap after it, and its value or exception. *)
Done(w) == [w |-> w, thr |-> FALSE, v |-> Undef]
Returns(w, v) == [w |-> w, thr |-> FALSE, v |-> v]
Throws(w, e) == [w |-> w, thr |-> TRUE, v |-> e]

CbNames == {"dataCb", "errorCb", "cancelCb", "endCb"}

NewPPromise(cancelable) ==
    [cancelable |-> cancelable, result |-> [tag |-> 0, val |-> Undef],
     dataCb |-> <<>>, errorCb |-> <<>>, cancelCb |-> <<>>, endCb |-> <<>>,
     gone |-> {}, frozen |-> FALSE]

alloc(w, cancelable) ==
    [w EXCEPT !.pp = Append(@, NewPPromise(cancelable)), !.hist = Append(@, <<>>)]

__status__(r) ==
    CASE r.tag = 0 -> "Pending"
      [] r.tag = 1 -> "Resolved"
      [] r.tag = 2 -> "Rejected"
      [] r.tag = 3 -> "Canceled"

\* this.result = r
setResult(w, p, r) ==
    [w EXCEPT !.pp[p].result = r, !.hist[p] = Append(@, r)]

shrinkMemory(w, p) ==
    [w EXCEPT !.pp[p].gone = CbNames, !.pp[p].frozen = TRUE]

push(w, p, list, cb) ==
    [w EXCEPT !.pp[p][list] = Append(@, cb)]

----------------------------------------------------------------------------
(* The methods. d is the depth of the call stack. *)

RECURSIVE Call(_, _, _, _)
RECURSIVE forEach(_, _, _, _, _, _)
RECURSIVE resolve(_, _, _, _)
RECURSIVE reject(_, _, _, _)
RECURSIVE cancel(_, _, _)
RECURSIVE ondata(_, _, _, _)
RECURSIVE onerror(_, _, _, _)
RECURSIVE oncancel(_, _, _, _)
RECURSIVE onend(_, _, _, _)
RECURSIVE _pipe(_, _, _, _, _, _)
RECURSIVE map(_, _, _, _, _, _, _)
RECURSIVE thenOf(_, _, _, _, _)
RECURSIVE _allResolveCb(_, _, _, _, _)
RECURSIVE _allRejectCb(_, _, _, _, _)
RECURSIVE observer(_, _, _, _)

\* (a variant: the loop ends at the first callback that throws)
abortStep(r, p, list, i, arg, d) ==
    IF r.thr THEN r.w ELSE forEach(r.w, p, list, i + 1, arg, d)

forEach_abort(w, p, list, i, arg, d) ==
    IF i > Len(w.pp[p][list]) THEN w
    ELSE abortStep(Call(w, w.pp[p][list][i], arg, d + 1), p, list, i, arg, d)

\* for (const cb of this[list]) { try { cb(arg) } catch { onError } }
\* The loop reads the array it started on, which only grows while it runs.
forEach(w, p, list, i, arg, d) ==
    IF i > Len(w.pp[p][list]) THEN w
    ELSE forEach(Call(w, w.pp[p][list][i], arg, d + 1).w, p, list, i + 1, arg, d)

\* the tail of resolve, reject and cancel: the end callbacks, then the release
finish(w, p, d) ==
    LET w1 == IF "endCb" \notin w.pp[p].gone
              THEN forEach(w, p, "endCb", 1, Undef, d)
              ELSE w
    IN  shrinkMemory(w1, p)

\* (a variant: resolve never returns early)
resolveGuard_open(w, p) == FALSE

resolveGuard(w, p) == "dataCb" \in w.pp[p].gone

resolve(w, p, data, d) ==
    IF resolveGuard(w, p) THEN Done(w)
    ELSE IF isPromiseLike(data)
    THEN LET r == thenOf(w, data, Bind("resolve", p), Bind("reject", p), d)
         IN  [r EXCEPT !.v = Undef]
    ELSE LET w1 == setResult(w, p, [tag |-> 1, val |-> data])
             w2 == forEach(w1, p, "dataCb", 1, data, d)
         IN  Done(finish(w2, p, d))

rejectGuard(w, p) == "errorCb" \in w.pp[p].gone

reject(w, p, error, d) ==
    IF rejectGuard(w, p) THEN Done(w)
    ELSE LET w1 == setResult(w, p, [tag |-> 2, val |-> error])
             w2 == forEach(w1, p, "errorCb", 1, error, d)
         IN  Done(finish(w2, p, d))

\* (a variant: cancel does not look at the cancelable flag)
cancelGuard_any(w, p) == "cancelCb" \in w.pp[p].gone

cancelGuard(w, p) == ~w.pp[p].cancelable \/ "cancelCb" \in w.pp[p].gone

cancel(w, p, d) ==
    IF cancelGuard(w, p) THEN Done(w)
    ELSE LET w1 == setResult(w, p, [tag |-> 3, val |-> Undef])
             w2 == forEach(w1, p, "cancelCb", 1, Undef, d)
         IN  Done(finish(w2, p, d))

\* the immediate call of a late observer: try { cb(arg) } catch { onError }
late(w, cb, arg, d) == Done(Call(w, cb, arg, d + 1).w)

ondata(w, p, cb, d) ==
    IF "dataCb" \in w.pp[p].gone
    THEN IF w.pp[p].result.tag = 1 THEN late(w, cb, w.pp[p].result.val, d) ELSE Done(w)
    ELSE Done(push(w, p, "dataCb", cb))

onerror(w, p, cb, d) ==
    IF "errorCb" \in w.pp[p].gone
    THEN IF w.pp[p].result.tag = 2 THEN late(w, cb, w.pp[p].result.val, d) ELSE Done(w)
    ELSE Done(push(w, p, "errorCb", cb))

oncancel(w, p, cb, d) ==
    IF ~w.pp[p].cancelable THEN Done(w)
    ELSE IF "cancelCb" \in w.pp[p].gone
    THEN IF w.pp[p].result.tag = 3 THEN late(w, cb, Undef, d) ELSE Done(w)
    ELSE Done(push(w, p, "cancelCb", cb))

onend(w, p, cb, d) ==
    IF "endCb" \in w.pp[p].gone
    THEN IF w.pp[p].result.tag # 0 THEN late(w, cb, Undef, d) ELSE Done(w)
    ELSE Done(push(w, p, "endCb", cb))

\* (a variant: the catch block rejects even when onerror was given)
pipeCatch_reject(w, g, p, error, d) ==
    Call(w, Bind("reject", p), error, d + 1)

\* the catch block of _pipe
pipeCatch(w, g, p, error, d) ==
    IF g.n # "none"
    THEN Call(w, PipeBind(g, NoFn, p), error, d + 1)
    ELSE Call(w, Bind("reject", p), error, d + 1)

\* (pipes is not of the program: r is the outcome of the catch block that
\* handles the throw recorded as pipes[j]; the record notes a catch block that
\* was itself cut short, which only the exhausted call stack can do)
noteCatch(r, j, e) ==
    IF r.thr /\ e.k = "exc" THEN [r EXCEPT !.w.pipes[j].cut = TRUE] ELSE r

\* the end of the try block: r is the outcome of what ran in it
pipeTry(r, g, p, d) ==
    IF r.thr THEN noteCatch(pipeCatch(r.w, g, p, r.v, d), Len(r.w.pipes), r.v)
    ELSE Done(r.w)

\* (pipes is not of the program: it records what a transform threw, with the
\* status the derived Future had then, for the properties)
noteThrow(r, g, p) ==
    IF r.v.k = "exc"
    THEN [r EXCEPT !.w.pipes = Append(@, [p |-> p, g |-> g, e |-> r.v,
                                          was |-> r.w.pp[p].result.tag,
                                          cut |-> FALSE])]
    ELSE r

\* the try block after const result = ondata(data): r is the outcome of ondata
pipeResult(r, g, p, d) ==
    IF r.thr THEN noteThrow(r, g, p)
    ELSE IF isPromiseLike(r.v)
    THEN thenOf(r.w, r.v, Bind("resolve", p),
                IF g.n # "none" THEN PipeBind(g, NoFn, p) ELSE Bind("reject", p), d)
    ELSE Call(r.w, Bind("resolve", p), r.v, d + 1)

\* (tcalls is not of the program: it records the call ondata(data) when ondata
\* is a function of the application and the call stack has room for it)
noteCall(w, f, p, data, d) ==
    IF f.n \in {"fn", "throw"} /\ d + 1 <= MaxDepth
    THEN [w EXCEPT !.tcalls = Append(@, [f |-> f, p |-> p, arg |-> data])]
    ELSE w

_pipe(w, f, g, p, data, d) ==
    pipeTry(pipeResult(Call(noteCall(w, f, p, data, d), f, data, d + 1), g, p, d), g, p, d)

\* map(onfulfilled, onrejected, oncanceled, bindCancel); returns the new PPromise
map(w, s, f, g, h, bindCancel, d) ==
    LET new == Len(w.pp) + 1
        w0 == alloc(w, w.pp[s].cancelable)
        w1 == ondata(w0, s, IF f.n # "none" THEN PipeBind(f, g, new)
                            ELSE Bind("resolve", new), d).w
        w2 == onerror(w1, s, IF g.n # "none" THEN PipeBind(g, NoFn, new)
                             ELSE Bind("reject", new), d).w
        w3 == oncancel(w2, s, IF h.n # "none" THEN PipeBind(h, g, new)
                              ELSE Bind("cancel", new), d).w
        w4 == IF bindCancel THEN oncancel(w3, new, Bind("cancel", s), d).w ELSE w3
    IN  Returns(w4, PRef(new))

then(w, s, f, g, d) == map(w, s, f, g, ThrowCancel, TRUE, d)

catchCancel(w, s, h, bindCancel, d) == map(w, s, NoFn, NoFn, h, bindCancel, d)

\* the reaction jobs of a native promise that settled with (ok, val)
reactionJobs(reactions, ok, val) ==
    [j \in 1..Len(reactions) |->
        [c |-> IF ok THEN reactions[j].f ELSE reactions[j].r, arg |-> val]]

\* x.then(onF, onR) for an awaitable x: a PPromise or a native promise
thenOf(w, x, onF, onR, d) ==
    IF x.k = "pp" THEN then(w, x.n, onF, onR, d)
    ELSE LET q == w.np[x.n] IN
         IF q.st = "pending"
         THEN Done([w EXCEPT !.np[x.n].reactions = Append(@, [f |-> onF, r |-> onR])])
         ELSE Done([w EXCEPT !.jobs = Append(@,
                        [c |-> IF q.st = "fulfilled" THEN onF ELSE onR, arg |-> q.val])])

\* the application calls cancel() on p (recorded when p is Pending and cancelable)
userCancel(w, p) ==
    IF w.pp[p].result.tag = 0 /\ w.pp[p].cancelable
    THEN [w EXCEPT !.ucancel = @ \cup {p}] ELSE w

\* an application callback handed to p.ondata / onerror / oncancel / onend (list
\* names which); act is what it does when it is invoked, was is p's result when
\* it was handed over
NewObs(w, p, list, act) ==
    [on |-> p, list |-> list, act |-> act, tgt |-> p, was |-> w.pp[p].result]

\* p.ondata(cb) / p.onerror(cb) / p.oncancel(cb) / p.onend(cb), called at depth d
on(w, p, list, cb, d) ==
    IF d > MaxDepth THEN Throws(w, RangeError)
    ELSE CASE list = "dataCb" -> ondata(w, p, cb, d)
           [] list = "errorCb" -> onerror(w, p, cb, d)
           [] list = "cancelCb" -> oncancel(w, p, cb, d)
           [] list = "endCb" -> onend(w, p, cb, d)

\* an application observer that registers a further (plain) observer on list
subscribe(w, p, list, d) ==
    on([w EXCEPT !.obs = Append(@, NewObs(w, p, list, "none"))],
       p, list, ObsFn(Len(w.obs) + 1), d)

\* an application observer: it is recorded, then does what it was written to do
observer(w, o, arg, d) ==
    LET w1 == [w EXCEPT !.calls = Append(@, [o |-> o, arg |-> arg])]
        a == w.obs[o]
    IN  CASE a.act = "none" -> Done(w1)
          [] a.act = "cancel" -> Call(userCancel(w1, a.tgt), Bind("cancel", a.tgt), Undef, d + 1)
          [] a.act = "return" -> Call(w1, Bind("resolve", a.tgt), Num(0), d + 1)
          [] a.act = "throw" -> Call(w1, Bind("reject", a.tgt), Err(0), d + 1)
          [] a.act = "raise" -> Throws(w1, Err(0))
          [] a.act \in CbNames -> subscribe(w1, a.tgt, a.act, d + 1)

_allState(w, len) ==
    LET w0 == alloc(w, TRUE) IN
    [w0 EXCEPT !.ast = Append(@,
        [cnt |-> 0, finalCnt |-> (len * (len + 1)) \div 2, err |-> FALSE,
         result |-> [j \in 1..len |-> Undef], promise |-> Len(w0.pp),
         deleted |-> FALSE, rejs |-> <<>>])]

\* delete _s.result; delete _s.promise; delete _s.cnt; delete _s.finalCnt
deleteState(w, sid) == [w EXCEPT !.ast[sid].deleted = TRUE]

\* the deletes that follow state.promise.resolve / reject, whose outcome is r
thenDelete(r, sid) == IF r.thr THEN r ELSE Done(deleteState(r.w, sid))

\* the weight the element at (0-based) index i adds to state.cnt
weight(i) == i

\* state.cnt += i; state.result[i] = value
count(w, sid, i, value) ==
    [w EXCEPT !.ast[sid].cnt = @ + weight(i), !.ast[sid].result[i + 1] = value]

\* if (state.cnt >= state.finalCnt) { state.promise.resolve(state.result); ... }
complete(w, sid, d) ==
    IF w.ast[sid].cnt >= w.ast[sid].finalCnt
    THEN thenDelete(Call(w, Bind("resolve", w.ast[sid].promise),
                         Arr(w.ast[sid].result), d + 1), sid)
    ELSE Done(w)

_allResolveCb(w, sid, i, value, d) ==
    IF w.ast[sid].err THEN Done(w)
    ELSE IF w.ast[sid].deleted THEN Throws(w, TypeError)
    ELSE complete(count(w, sid, i, value), sid, d)

\* (a variant: the aggregate is rejected with an error of its own)
_allRejectCb_wrapped(w, sid, i, error, d) ==
    LET w0 == [w EXCEPT !.ast[sid].rejs = Append(@, [i |-> i, error |-> error,
                   was |-> w.pp[w.ast[sid].promise].result.tag])]
    IN
    IF w.ast[sid].err THEN Done(w0)
    ELSE thenDelete(Call([w0 EXCEPT !.ast[sid].err = TRUE],
                         Bind("reject", w.ast[sid].promise), TypeError, d + 1), sid)

\* (rejs is not of the program: it records every call, with the status the
\* aggregate had when the call was made, for the properties)
_allRejectCb(w, sid, i, error, d) ==
    LET w0 == [w EXCEPT !.ast[sid].rejs = Append(@, [i |-> i, error |-> error,
                   was |-> w.pp[w.ast[sid].promise].result.tag])]
    IN
    IF w.ast[sid].err THEN Done(w0)
    ELSE thenDelete(Call([w0 EXCEPT !.ast[sid].err = TRUE],
                         Bind("reject", w.ast[sid].promise), error, d + 1), sid)

\* data[i] for the i-th job of a batch (i counts from 1 here)
At(data, i) == IF data.k = "arr" /\ i <= data.n THEN data.a[i] ELSE Undef

RECURSIVE Batch_then(_, _, _, _, _)
RECURSIVE Batch_catch(_, _, _, _, _)

\* (a variant: every job gets the first result)
Batch_thenStep_first(w, promises, i, data, d) ==
    Call(w, Bind("resolve", promises[i]), At(data, 1), d + 1)

\* PPromise.resolve(promises[i], data[i])
Batch_thenStep(w, promises, i, data, d) ==
    Call(w, Bind("resolve", promises[i]), At(data, i), d + 1)

\* the rest of the loop of then, r being the outcome of its body for i
Batch_thenNext(r, promises, i, data, d) ==
    IF r.thr THEN r ELSE Batch_then(r.w, promises, i + 1, data, d)

\* CreateBatch.then(promises, data), from the job i
Batch_then(w, promises, i, data, d) ==
    IF i > Len(promises) THEN Done(w)
    ELSE Batch_thenNext(Batch_thenStep(w, promises, i, data, d), promises, i, data, d)

\* the rest of the loop of catch, r being the outcome of its body for i
Batch_catchNext(r, promises, i, error, d) ==
    IF r.thr THEN r ELSE Batch_catch(r.w, promises, i + 1, error, d)

\* CreateBatch.catch(promises, error), from the job i
Batch_catch(w, promises, i, error, d) ==
    IF i > Len(promises) THEN Done(w)
    ELSE Batch_catchNext(Call(w, Bind("reject", promises[i]), error, d + 1),
                         promises, i, error, d)

Call(w, c, arg, d) ==
    IF d > MaxDepth THEN Throws(w, RangeError)
    ELSE CASE c.n = "resolve" -> resolve(w, c.p, arg, d)
           [] c.n = "reject" -> reject(w, c.p, arg, d)
           [] c.n = "cancel" -> cancel(w, c.p, d)
           [] c.n = "_pipe" -> _pipe(w, c.f, c.g, c.p, arg, d)
           [] c.n = "fn" -> Returns(w, Ret(c.p, arg))
           [] c.n = "throw" -> Throws(w, Exc(c.p, arg))
           [] c.n = "ThrowCancel" -> Throws(w, CancelError)
           [] c.n = "VoidFn" -> Done(w)
           [] c.n = "_allResolveCb" -> _allResolveCb(w, c.p, c.i, arg, d)
           [] c.n = "_allRejectCb" -> _allRejectCb(w, c.p, c.i, arg, d)
           [] c.n = "obs" -> observer(w, c.p, arg, d)
           [] c.n = "Batch_then" -> Batch_then(w, c.ps, 1, arg, d)
           [] c.n = "Batch_catch" -> Batch_catch(w, c.ps, 1, arg, d)

RECURSIVE allLoop(_, _, _, _, _, _, _)

\* if (process instanceof PPromise) { if (bindCancel) promise.oncancel(...);
\* process = process.catchCancel(PPromise.ThrowCancel) }
allWrap(w, promise, x, bindCancel, d) ==
    IF x.k = "pp"
    THEN catchCancel(IF bindCancel THEN oncancel(w, promise, Bind("cancel", x.n), d).w
                     ELSE w, x.n, ThrowCancel, TRUE, d)
    ELSE Returns(w, x)

\* if (isPromiseLike(process)) process.then(...) else _allResolveCb(state, i, process)
\* where r.v is process; rej names the rejection callback
allWatch(r, sid, i, rej, d) ==
    IF isPromiseLike(r.v)
    THEN thenOf(r.w, r.v, AllBind("_allResolveCb", sid, i), AllBind(rej, sid, i), d)
    ELSE _allResolveCb(r.w, sid, i, r.v, d)

\* i++ and the rest of the loop (an exception leaves it); r is the outcome of
\* the body for index i
allNext(r, sid, data, i, bindCancel, rej, d) ==
    IF r.thr THEN r ELSE allLoop(r.w, sid, data, i + 1, bindCancel, rej, d)

\* the loop of all/allCompleted over data, from (0-based) index i
allLoop(w, sid, data, i, bindCancel, rej, d) ==
    IF i >= Len(data) THEN Done(w)
    ELSE allNext(allWatch(allWrap(w, w.ast[sid].promise, data[i + 1], bindCancel, d),
                          sid, i, rej, d),
                 sid, data, i, bindCancel, rej, d)

\* return promise (r is the outcome of the loop)
allReturn(r, promise) == IF r.thr THEN r ELSE Returns(r.w, PRef(promise))

\* after const state = PPromise._allState(data.length), which made w
allFrom(w, data, bindCancel, d) ==
    allReturn(allLoop(w, Len(w.ast), data, 0, bindCancel, "_allRejectCb", d),
              w.ast[Len(w.ast)].promise)

all(w, data, bindCancel, d) == allFrom(_allState(w, Len(data)), data, bindCancel, d)

\* const out = promise.then(VoidFn); return out (r is the outcome of the loop)
allCompletedReturn(r, promise, d) ==
    IF r.thr THEN r ELSE then(r.w, promise, VoidFn, NoFn, d)

allCompletedFrom(w, data, bindCancel, d) ==
    allCompletedReturn(allLoop(w, Len(w.ast), data, 0, bindCancel, "_allResolveCb", d),
                       w.ast[Len(w.ast)].promise, d)

allCompleted(w, data, bindCancel, d) ==
    allCompletedFrom(_allState(w, Len(data)), data, bindCancel, d)

----------------------------------------------------------------------------
(* The state machine: one action per top-level call. *)

World ==
    [pp |-> pp, hist |-> hist, ast |-> ast, np |-> np, jobs |-> jobs,
     obs |-> obs, calls |-> calls, ucancel |-> ucancel, pipes |-> pipes,
     tcalls |-> tcalls]

\* the heap of the Futures after a call
CommitHeap(w) ==
    /\ pp' = w.pp
    /\ hist' = w.hist
    /\ ast' = w.ast
    /\ np' = w.np
    /\ jobs' = w.jobs
    /\ obs' = w.obs
    /\ calls' = w.calls
    /\ ucancel' = w.ucancel
    /\ pipes' = w.pipes
    /\ tcalls' = w.tcalls
    /\ UNCHANGED svars

Commit(w) == CommitHeap(w) /\ UNCHANGED uvars

Init ==
    /\ pp = <<>>
    /\ hist = <<>>
    /\ ast = <<>>
    /\ np = <<>>
    /\ jobs = <<>>
    /\ obs = <<>>
    /\ calls = <<>>
    /\ ucancel = {}
    /\ roots = <<>>
    /\ derived = <<>>
    /\ aggs = <<>>
    /\ awaits = <<>>
    /\ pipes = <<>>
    /\ tcalls = <<>>
    /\ ps = <<>>
    /\ sobs = <<>>
    /\ scalls = <<>>
    /\ raised = {}
    /\ smaps = <<>>
    /\ mlog = <<>>
    /\ bus = [listners |-> <<>>, pubs |-> <<>>]
    /\ batch = [queue |-> <<>>, timer |-> FALSE, timers |-> 0, runs |-> <<>>,
                subs |-> <<>>]
    /\ tm = [made |-> FALSE, max |-> 0, running |-> 0, queue |-> <<>>, tasks |-> <<>>,
             peak |-> 0]

Range(s) == {s[j] : j \in 1..Len(s)}

\* the PPromises the application holds
Handles == Range(roots) \cup {derived[j].d : j \in 1..Len(derived)}
               \cup {aggs[j].out : j \in 1..Len(aggs)}

\* $async(cancelable).  Making a fresh Future commutes with every other call, so
\* the application's calls of $async are taken first.
Async(cancelable, max) ==
    /\ Len(roots) < max
    /\ Len(pp) = Len(roots)
    /\ \A p \in 1..Len(pp) : hist[p] = <<>>
    /\ Commit(alloc(World, cancelable))
    /\ roots' = Append(roots, Len(pp) + 1)
    /\ UNCHANGED <<derived, aggs, awaits>>

\* port.return(Num(v))
Return(p, v) ==
    /\ p \in Range(roots)
    /\ Commit(resolve(World, p, Num(v), 0).w)
    /\ UNCHANGED <<roots, derived, aggs, awaits>>

\* port.throw(Err(e))
Throw(p, e) ==
    /\ p \in Range(roots)
    /\ Commit(reject(World, p, Err(e), 0).w)
    /\ UNCHANGED <<roots, derived, aggs, awaits>>

\* p.cancel()
Cancel(p) ==
    /\ p \in Handles
    /\ Commit(cancel(userCancel(World, p), p, 0).w)
    /\ UNCHANGED <<roots, derived, aggs, awaits>>

Register(w, p, list, cb) ==
    CASE list = "dataCb" -> ondata(w, p, cb, 0)
      [] list = "errorCb" -> onerror(w, p, cb, 0)
      [] list = "cancelCb" -> oncancel(w, p, cb, 0)
      [] list = "endCb" -> onend(w, p, cb, 0)

\* p.ondata(cb) / p.onerror(cb) / p.oncancel(cb) / p.onend(cb) with an application
\* callback that, when invoked, does act on p itself
Observe(p, list, act) ==
    /\ Len(obs) < MaxObs
    /\ p \in Handles
    /\ act \in {"return", "throw"} => p \in Range(roots)
    /\ LET o == Len(obs) + 1
           w == [World EXCEPT !.obs = Append(@, NewObs(World, p, list, act))]
       IN  Commit(Register(w, p, list, ObsFn(o)).w)
    /\ UNCHANGED <<roots, derived, aggs, awaits>>

NewDerived(s, r, f, g, h, b) ==
    /\ Commit(r.w)
    /\ derived' = Append(derived, [s |-> s, d |-> r.v.n, f |-> f, g |-> g,
                                   h |-> h, bind |-> b, was |-> pp[s].result.tag])
    /\ UNCHANGED <<roots, aggs, awaits>>

\* s.map(f, g, h, bindCancel)
Map(s, f, g, h, b) ==
    /\ Len(derived) < MaxDerived
    /\ s \in Handles
    /\ NewDerived(s, map(World, s, f, g, h, b, 0), f, g, h, b)

\* s.then(f, g)
Then(s, f, g) ==
    /\ Len(derived) < MaxDerived
    /\ s \in Handles
    /\ NewDerived(s, then(World, s, f, g, 0), f, g, ThrowCancel, TRUE)

\* s.catchCancel(h, bindCancel)
CatchCancel(s, h, b) ==
    /\ Len(derived) < MaxDerived
    /\ s \in Handles
    /\ NewDerived(s, catchCancel(World, s, h, b, 0), NoFn, NoFn, h, b)

\* port.return(x) of the Future p with an awaitable x: another Future of the
\* application, or a native promise made for the call
ReturnAwaitable(p, x) ==
    /\ p \in Range(roots)
    /\ Len(awaits) < MaxAwaits
    /\ x.k = "pp" => x.n \in Range(roots) \ {p}
    /\ x.k = "np" => x.n = Len(np) + 1
    /\ Commit(resolve(IF x.k = "np"
                      THEN [World EXCEPT !.np = Append(@, [st |-> "pending", val |-> Undef,
                                                          reactions |-> <<>>])]
                      ELSE World, p, x, 0).w)
    /\ awaits' = Append(awaits, [p |-> p, x |-> x, was |-> pp[p].result.tag])
    /\ UNCHANGED <<roots, derived, aggs>>

\* the elements an aggregate is built from: plain values, PPromises the
\* application holds, and fresh native promises ("np": made for this call)
ElemSpecs == {[k |-> "np", n |-> 0]} \cup {Num(v) : v \in 1..MaxVal}
                 \cup {PRef(p) : p \in Range(roots)}

ElemLists == UNION {[1..n -> ElemSpecs] : n \in 0..MaxElems}

\* the data array of the call: each "np" element becomes a new native promise
RECURSIVE makeData(_, _, _)
makeData(es, j, base) ==
    IF j > Len(es) THEN <<>>
    ELSE <<IF es[j].k = "np" THEN NRef(base + 1) ELSE es[j]>>
         \o makeData(es, j + 1, IF es[j].k = "np" THEN base + 1 ELSE base)

withNatives(w, data) ==
    LET n == Cardinality({j \in 1..Len(data) : data[j].k = "np"})
    IN  [w EXCEPT !.np = @ \o [j \in 1..n |->
            [st |-> "pending", val |-> Undef, reactions |-> <<>>]]]

NoRepeat(es) == \A i, j \in 1..Len(es) : (i # j /\ es[i].k = "pp") => es[i] # es[j]

NewAgg(op, data, b, r) ==
    /\ ~r.thr
    /\ Commit(r.w)
    /\ aggs' = Append(aggs, [op |-> op, sid |-> Len(ast) + 1, out |-> r.v.n,
                             data |-> data, bind |-> b])
    /\ UNCHANGED <<roots, derived, awaits>>

\* PPromise.all(data, bindCancel)
All(es, b) ==
    /\ Len(aggs) < MaxAggs
    /\ NoRepeat(es)
    /\ LET data == makeData(es, 1, Len(np))
       IN  NewAgg("all", data, b, all(withNatives(World, data), data, b, 0))

\* PPromise.allCompleted(data, bindCancel)
AllCompleted(es, b) ==
    /\ Len(aggs) < MaxAggs
    /\ NoRepeat(es)
    /\ LET data == makeData(es, 1, Len(np))
       IN  NewAgg("allCompleted", data, b,
                  allCompleted(withNatives(World, data), data, b, 0))

\* a native promise settles: its reactions are queued as microtasks
SettleNative(q, ok, v) ==
    /\ q \in 1..Len(np)
    /\ np[q].st = "pending"
    /\ LET val == IF ok THEN Num(v) ELSE Err(v)
       IN  /\ np' = [np EXCEPT ![q] = [st |-> IF ok THEN "fulfilled" ELSE "rejected",
                                      val |-> val, reactions |-> <<>>]]
           /\ jobs' = jobs \o reactionJobs(np[q].reactions, ok, val)
    /\ UNCHANGED <<pp, hist, ast, obs, calls, ucancel, roots, derived, aggs, awaits, pipes,
                 tcalls>>
    /\ UNCHANGED <<svars, uvars>>

\* the next microtask runs
RunJob ==
    /\ jobs # <<>>
    /\ Commit(Call([World EXCEPT !.jobs = Tail(@)], Head(jobs).c, Head(jobs).arg, 1).w)
    /\ UNCHANGED <<roots, derived, aggs, awaits>>

Fns(fid) == {NoFn, UserFn(fid)}

Settle ==
    \/ \E p \in 1..Len(pp), v \in 1..MaxVal : Return(p, v)
    \/ \E p \in 1..Len(pp), e \in 1..MaxVal : Throw(p, e)
    \/ \E p \in 1..Len(pp) : Cancel(p)

\* the application derives Futures with map, then and catchCancel
NextMap ==
    \/ \E c \in BOOLEAN : Async(c, MaxSources)
    \/ Settle
    \/ \E s \in 1..Len(pp), f \in Fns(1), g \in Fns(2), h \in Fns(3), b \in BOOLEAN :
          Map(s, f, g, h, b)
    \/ \E s \in 1..Len(pp), f \in Fns(1), g \in Fns(2) : Then(s, f, g)
    \/ \E s \in 1..Len(pp), h \in Fns(3), b \in BOOLEAN : CatchCancel(s, h, b)

SpecMap == Init /\ [][NextMap]_vars

\* what an application callback does when it is invoked: nothing, a call of
\* cancel / port.return / port.throw on the Future, a throw, or the registration
\* of a further callback
ObsActs == {"none", "cancel", "return", "throw", "raise"} \cup CbNames

\* the application observes a Future with callbacks that act on it
NextObs ==
    \/ \E c \in BOOLEAN : Async(c, MaxSources)
    \/ Settle
    \/ \E p \in 1..Len(pp), list \in CbNames, act \in ObsActs : Observe(p, list, act)

SpecObs == Init /\ [][NextObs]_vars

\* the application observes Futures (with plain callbacks) that are linked by
\* catchCancel
NextLink ==
    \/ \E c \in BOOLEAN : Async(c, MaxSources)
    \/ Settle
    \/ \E p \in 1..Len(pp), list \in CbNames : Observe(p, list, "none")
    \/ \E s \in 1..Len(pp), h \in Fns(3), b \in BOOLEAN : CatchCancel(s, h, b)

SpecLink == Init /\ [][NextLink]_vars

\* the application aggregates Futures with all and allCompleted
NextAll ==
    \/ \E c \in BOOLEAN : Async(c, MaxElems)
    \/ Settle
    \/ \E es \in ElemLists, b \in BOOLEAN : All(es, b)
    \/ \E es \in ElemLists, b \in BOOLEAN : AllCompleted(es, b)
    \/ \E q \in 1..Len(np), ok \in BOOLEAN, v \in 1..MaxVal : SettleNative(q, ok, v)
    \/ RunJob

SpecAll == Init /\ [][NextAll]_vars

\* the application resolves Futures with awaitables: other Futures and native
\* promises, which settle with values of their own (MaxVal + their number)
NextAwait ==
    \/ \E c \in BOOLEAN : Async(c, MaxChain)
    \/ \E p \in 1..Len(pp), x \in {PRef(q) : q \in 1..Len(pp)} \cup {NRef(Len(np) + 1)} :
          ReturnAwaitable(p, x)
    \/ \E p \in 1..Len(pp) : Return(p, 1)
    \/ \E p \in 1..Len(pp) : Throw(p, 1)
    \/ \E p \in 1..Len(pp) : Cancel(p)
    \/ \E q \in 1..Len(np), ok \in BOOLEAN : SettleNative(q, ok, MaxVal + q)
    \/ RunJob

SpecAwait == Init /\ [][NextAwait]_vars

\* transforms that return, transforms that throw, and absent ones
Tfs(fid) == {NoFn, UserFn(fid), ThrowFn(fid)}

\* the application derives Futures with map, with transforms that may throw
NextPipe ==
    \/ \E c \in BOOLEAN : Async(c, MaxSources)
    \/ Settle
    \/ \E s \in 1..Len(pp), f \in Tfs(1), g \in Tfs(2), h \in Tfs(3), b \in BOOLEAN :
          Map(s, f, g, h, b)

SpecPipe == Init /\ [][NextPipe]_vars

----------------------------------------------------------------------------
(* PubSub of src/unnamed/part_001.  A listener is a function of the          *)
(* application: it returns a new native promise, or it throws.               *)

ListenerKinds == {"np", "throw"}

PendingNative == [st |-> "pending", val |-> Undef, reactions |-> <<>>]

\* PPromise.reject(error): a new Future, not cancelable, rejected at once
PPromise_reject(w, error, d) ==
    Returns(reject(alloc(w, FALSE), Len(w.pp) + 1, error, d + 1).w, PRef(Len(w.pp) + 1))

\* for (const cb of this.listners) { try { jobs.push(cb(event)) } catch { onError } }
\* from the listener j: the heap and the jobs array after it
RECURSIVE publishLoop(_, _, _, _)
publishLoop(w, listners, j, js) ==
    IF j > Len(listners) THEN [w |-> w, jobs |-> js]
    ELSE IF listners[j].kind = "throw" THEN publishLoop(w, listners, j + 1, js)
    ELSE publishLoop([w EXCEPT !.np = Append(@, PendingNative)], listners, j + 1,
                     Append(js, NRef(Len(w.np) + 1)))

\* return PPromise.allCompleted(jobs), r being the outcome of the loop
publishReturn(r, d) == allCompleted(r.w, r.jobs, TRUE, d + 1)

\* publish(event); valid says whether the event passes eventSchema.safeParse
publish(w, listners, valid, d) ==
    IF ~valid THEN PPromise_reject(w, Err(0), d)
    ELSE publishReturn(publishLoop(w, listners, 1, <<>>), d)

\* subscribe(cb); id tells the listeners apart
Subscribe(kind) ==
    /\ Len(bus.listners) < MaxListeners
    /\ bus' = [bus EXCEPT !.listners =
                   Append(@, [kind |-> kind, id |-> Len(bus.pubs) * MaxListeners + Len(@)])]
    /\ UNCHANGED <<fvars, svars, batch, tm>>

\* the function subscribe returned, for the listener at j: unlisten(cb)
Unlisten(j) ==
    /\ j \in 1..Len(bus.listners)
    /\ bus' = [bus EXCEPT !.listners =
                   SubSeq(@, 1, j - 1) \o SubSeq(@, j + 1, Len(@))]
    /\ UNCHANGED <<fvars, svars, batch, tm>>

\* the call pubsub.publish(event), of outcome r
Published(valid, r) ==
    /\ ~r.thr
    /\ CommitHeap(r.w)
    /\ bus' = [bus EXCEPT !.pubs =
                   Append(@, [out |-> r.v.n, valid |-> valid,
                              jobs |-> (Len(np) + 1)..Len(r.w.np)])]
    /\ UNCHANGED <<roots, derived, aggs, awaits, batch, tm>>

Publish(valid) ==
    /\ Len(bus.pubs) < MaxPublish
    /\ Published(valid, publish(World, bus.listners, valid, 0))

NextPubSub ==
    \/ \E kind \in ListenerKinds : Subscribe(kind)
    \/ \E j \in 1..MaxListeners : Unlisten(j)
    \/ \E valid \in BOOLEAN : Publish(valid)
    \/ \E q \in 1..Len(np), ok \in BOOLEAN : SettleNative(q, ok, 1)
    \/ RunJob

SpecPubSub == Init /\ [][NextPubSub]_vars

----------------------------------------------------------------------------
(* CreateBatch of src/unnamed/part_001.  The implementation is a function of *)
(* the application: it returns a new native promise, or it throws.           *)
(* batch.timers counts the timers set and not yet fired; batch.subs and      *)
(* batch.runs are not of the program: the arguments of the calls of runJob   *)
(* in their order, and the calls of the implementation.                      *)

\* this.queue.map(AccessKey("0")) and this.queue.map(AccessKey("1"))
Args(queue) == [j \in 1..Len(queue) |-> queue[j].arg]
Promises(queue) == [j \in 1..Len(queue) |-> queue[j].p]

\* the body of processQueue after this.queue = []; this.timer = null: the try
\* block and its catch, for an implementation that returns the promise made
\* last (returns) or throws Err(0)
processQueue(w, promises, returns, d) ==
    IF returns
    THEN thenOf(w, NRef(Len(w.np)), BatchBind("Batch_then", promises),
                BatchBind("Batch_catch", promises), d + 1)
    ELSE Batch_catch(w, promises, 1, Err(0), d + 1)

\* (a variant: the queue is not emptied)
dequeued_kept(b) == [b EXCEPT !.timer = FALSE]

\* this.queue = []; this.timer = null
dequeued(b) == [b EXCEPT !.queue = <<>>, !.timer = FALSE]

\* runJob(Num(a)): const pormise = new PPromise(); this.queue.push([arg, pormise]);
\* this.timer ??= setTimeout(...)
BatchJob(a) ==
    /\ Len(pp) < MaxJobs
    /\ CommitHeap(alloc(World, FALSE))
    /\ batch' = [batch EXCEPT !.queue = Append(@, [arg |-> Num(a), p |-> Len(pp) + 1]),
                              !.timer = TRUE,
                              !.timers = IF batch.timer THEN @ ELSE @ + 1,
                              !.subs = Append(@, Num(a))]
    /\ UNCHANGED <<roots, derived, aggs, awaits, bus, tm>>

\* a timer fires: processQueue(); runs records the call of the implementation
Fire(returns) ==
    /\ batch.timers > 0
    /\ CommitHeap(processQueue(IF returns
                                THEN [World EXCEPT !.np = Append(@, PendingNative)]
                                ELSE World,
                                Promises(batch.queue), returns, 0).w)
    /\ batch' = [dequeued(batch) EXCEPT
                    !.timers = @ - 1,
                    !.runs = Append(@, [args |-> Args(batch.queue),
                                        promises |-> Promises(batch.queue),
                                        q |-> IF returns THEN Len(np) + 1 ELSE 0])]
    /\ UNCHANGED <<roots, derived, aggs, awaits, bus, tm>>

\* the result array of an implementation for args: one result per argument
Results(args) == Arr([j \in 1..Len(args) |-> Ret(0, args[j])])

\* the promise the implementation returned for the batch k settles
BatchSettle(k, ok) ==
    /\ k \in 1..Len(batch.runs)
    /\ batch.runs[k].q # 0
    /\ np[batch.runs[k].q].st = "pending"
    /\ np' = [np EXCEPT ![batch.runs[k].q] =
                  [st |-> IF ok THEN "fulfilled" ELSE "rejected",
                   val |-> IF ok THEN Results(batch.runs[k].args) ELSE Err(1),
                   reactions |-> <<>>]]
    /\ jobs' = jobs \o reactionJobs(np[batch.runs[k].q].reactions, ok,
                                     IF ok THEN Results(batch.runs[k].args) ELSE Err(1))
    /\ UNCHANGED <<pp, hist, ast, obs, calls, ucancel, roots, derived, aggs, awaits, pipes,
                 tcalls>>
    /\ UNCHANGED <<svars, uvars>>

NextBatch ==
    \/ \E a \in 1..MaxVal : BatchJob(a)
    \/ \E returns \in BOOLEAN : Fire(returns)
    \/ \E k \in 1..MaxJobs, ok \in BOOLEAN : BatchSettle(k, ok)
    \/ RunJob

SpecBatch == Init /\ [][NextBatch]_vars

----------------------------------------------------------------------------
(* CreateParallelTaskManager of src/unnamed/part_000.  The implementation is *)
(* a function of the application: it returns a promise that settles later,   *)
(* or it throws at once.  tm.peak and the field via of a task are not of the *)
(* program: peak is the largest number of invocations that were in progress  *)
(* at an invocation, via tells whether the call or dequeue started the task. *)

\* the invocations of implementation in progress: called, promise not settled
InProgress(m) == Cardinality({t \in 1..Len(m.tasks) : m.tasks[t].st = "running"})

Larger(a, b) == IF a > b THEN a ELSE b

RECURSIVE runTask(_, _)

\* if (running < maxParallelExecution && queue.length) { running++;
\* const nextTask = queue.shift(); if (nextTask) nextTask() }
dequeueNext(m) ==
    IF m.running < m.max /\ m.queue # <<>>
    THEN runTask([m EXCEPT !.running = @ + 1, !.queue = Tail(@),
                           !.tasks[Head(m.queue)].via = "queue"], Head(m.queue))
    ELSE m

\* running--; and the rest of dequeue
dequeue(m) == dequeueNext([m EXCEPT !.running = @ - 1])

\* runTask() up to its await: implementation(...arg) is called; when it throws,
\* the catch and finally blocks run at once
runTask(m, t) ==
    IF m.tasks[t].kind = "throw"
    THEN dequeue([m EXCEPT !.tasks[t].st = "done",
                           !.peak = Larger(@, InProgress(m) + 1)])
    ELSE [m EXCEPT !.tasks[t].st = "running", !.peak = Larger(@, InProgress(m) + 1)]

\* (a variant: the limit is not tested)
start_unlimited(m, t) == runTask([m EXCEPT !.running = @ + 1], t)

\* if (running < maxParallelExecution) { running++; runTask() } else queue.push(runTask)
start(m, t) ==
    IF m.running < m.max THEN runTask([m EXCEPT !.running = @ + 1], t)
    ELSE [m EXCEPT !.queue = Append(@, t)]

\* CreateParallelTaskManager(max, implementation)
TMCreate(max) ==
    /\ ~tm.made
    /\ tm' = [tm EXCEPT !.made = TRUE, !.max = max]
    /\ UNCHANGED <<fvars, svars, bus, batch>>

\* a call of the managed function
TMCall(kind) ==
    /\ tm.made
    /\ Len(tm.tasks) < MaxTasks
    /\ tm' = start([tm EXCEPT !.tasks = Append(@, [kind |-> kind, st |-> "queued",
                                                     via |-> "call"])],
                   Len(tm.tasks) + 1)
    /\ UNCHANGED <<fvars, svars, bus, batch>>

\* the promise implementation returned for the task t settles (either way)
TMSettle(t) ==
    /\ t \in 1..Len(tm.tasks)
    /\ tm.tasks[t].st = "running"
    /\ tm' = [tm EXCEPT !.tasks[t].st = "settled"]
    /\ UNCHANGED <<fvars, svars, bus, batch>>

\* runTask() of the task t goes on after its await: resolve(result) or
\* reject(error), then finally dequeue()
TMResume(t) ==
    /\ t \in 1..Len(tm.tasks)
    /\ tm.tasks[t].st = "settled"
    /\ tm' = dequeue([tm EXCEPT !.tasks[t].st = "done"])
    /\ UNCHANGED <<fvars, svars, bus, batch>>

NextTasks ==
    \/ \E max \in 0..MaxParallel : TMCreate(max)
    \/ \E kind \in {"async", "throw"} : TMCall(kind)
    \/ \E t \in 1..MaxTasks : TMSettle(t)
    \/ \E t \in 1..MaxTasks : TMResume(t)

SpecTasks == Init /\ [][NextTasks]_vars

----------------------------------------------------------------------------
(* The cancelable Stream (PStream) of src/pstream.ts.  Its methods carry the   *)
(* prefix PS_ where a method of the Future has the same name.  The object is  *)
(* frozen by shrinkMemory: in the strict code of a class, an assignment to a  *)
(* property of a frozen object, and the delete of a property it has, throw a  *)
(* TypeError.                                                                 *)

Error == [k |-> "Error", n |-> 0]

SLists == {"nextCb", "errorCb", "completedCb", "cancelCb", "endCb"}

\* new PStream(); emitted is not of the program: it records the emit calls
NewPStream ==
    [result |-> [tag |-> 0, val |-> Undef], unflusedData |-> <<>>,
     nextCb |-> <<>>, errorCb |-> <<>>, completedCb |-> <<>>, cancelCb |-> <<>>,
     endCb |-> <<>>, gone |-> {}, frozen |-> FALSE, emitted |-> <<>>]

PS_status(r) ==
    CASE r.tag = 0 -> "Pending"
      [] r.tag = 1 -> "Emmiting"
      [] r.tag = 2 -> "Rejected"
      [] r.tag = 3 -> "Canceled"
      [] r.tag = 4 -> "Resolved"

Terminal(r) == r.tag \notin {0, 1}

(* Callables of a Stream: application callbacks, bound _listen, the bound *)
(* methods and the bound _map that map registers, and map transforms.     *)
SObsFn(o) == [n |-> "sobs", p |-> o, i |-> 0]
ListenBind(s, cb, i) == [n |-> "_listen", p |-> s, i |-> i, cb |-> cb]
SBind(name, s) == [n |-> name, p |-> s, i |-> 0]
MapBind(stream, cb, onErr) ==
    [n |-> "_map", p |-> stream, i |-> 0, cb |-> cb, g |-> onErr]
\* a transform that returns for every item, and one that throws for the item 2
\* and returns for the others
STf(fid) == [n |-> "tf", p |-> fid, i |-> 0]
SPartialTf(fid) == [n |-> "tfpart", p |-> fid, i |-> 0]
\* the value transform fid returns for (data, i)
SRet(fid, data, i) == [k |-> "ret", n |-> fid, a |-> <<data, Num(i)>>]

\* this[field] = val
sSet(w, s, field, val) ==
    IF w.ps[s].frozen THEN Throws(w, TypeError)
    ELSE Done([w EXCEPT !.ps[s][field] = val, !.ps[s].gone = @ \ {field}])

\* delete this[field]
sDelete(w, s, field) ==
    IF field \in w.ps[s].gone THEN Done(w)
    ELSE IF w.ps[s].frozen THEN Throws(w, TypeError)
    ELSE Done([w EXCEPT !.ps[s].gone = @ \cup {field}])

\* the properties shrinkMemory deletes
released(w, s) ==
    (IF "unflusedData" \in w.ps[s].gone THEN {"nextCb"} ELSE {})
        \cup {"errorCb", "endCb", "cancelCb"}

PS_shrinkMemory(w, s) ==
    IF w.ps[s].frozen /\ released(w, s) \ w.ps[s].gone # {}
    THEN Throws(w, TypeError)
    ELSE Done([w EXCEPT !.ps[s].gone = @ \cup released(w, s), !.ps[s].frozen = TRUE])

RECURSIVE sCall(_, _, _, _, _)
RECURSIVE sEach(_, _, _, _, _)
RECURSIVE sForEach(_, _, _, _, _, _)
RECURSIVE flushLoop(_, _, _, _)

\* for (const cb of nextCb) { try { cb(data) } catch { onError } } over the
\* array nextCb that was taken off the object
sEach(w, cbs, j, data, d) ==
    IF j > Len(cbs) THEN w
    ELSE sEach(sCall(w, cbs[j], data, -1, d + 1).w, cbs, j + 1, data, d)

\* for (const cb of this[list]) { try { cb(arg) } catch { onError } }
sForEach(w, s, list, j, arg, d) ==
    IF j > Len(w.ps[s][list]) THEN w
    ELSE sForEach(sCall(w, w.ps[s][list][j], arg, -1, d + 1).w, s, list, j + 1, arg, d)

\* the loop over nextCb, once this.nextCb = [] was done with outcome r
deliverTo(r, cbs, data, d) ==
    IF r.thr THEN r ELSE Done(sEach(r.w, cbs, 1, data, d))

\* (a variant: this.nextCb is not emptied before the loop)
deliver_keep(w, s, data, d) ==
    IF "nextCb" \in w.ps[s].gone THEN Throws(w, TypeError)
    ELSE deliverTo(Done(w), w.ps[s].nextCb, data, d)

\* const nextCb = this.nextCb; this.nextCb = []; for (const cb of nextCb) ...
deliver(w, s, data, d) ==
    IF "nextCb" \in w.ps[s].gone
    THEN Throws(sSet(w, s, "nextCb", <<>>).w, TypeError)
    ELSE deliverTo(sSet(w, s, "nextCb", <<>>), w.ps[s].nextCb, data, d)

\* if (this.result[0] === 0) this.result = [1]
emitMark(w, s) ==
    IF w.ps[s].result.tag = 0 THEN sSet(w, s, "result", [tag |-> 1, val |-> Undef])
    ELSE Done(w)

\* the rest of emit, r being the outcome of its first assignment
emitStore(r, s, data, d) ==
    IF r.thr THEN r
    ELSE IF "unflusedData" \notin r.w.ps[s].gone
    THEN Done([r.w EXCEPT !.ps[s].unflusedData = Append(@, data)])
    ELSE deliver(r.w, s, data, d)

PS_emit(w, s, data, d) ==
    IF "nextCb" \in w.ps[s].gone THEN Done(w)
    ELSE emitStore(emitMark(w, s), s, data, d)

\* the tail of resolve, reject and cancel: the end callbacks, then the release
sFinish(w, s, d) ==
    PS_shrinkMemory(IF "endCb" \notin w.ps[s].gone
                    THEN sForEach(w, s, "endCb", 1, Undef, d)
                    ELSE w, s)

\* this.result = res; the loop over this[list]; the tail (r is the outcome of
\* the assignment)
sSettle(r, s, list, arg, d) ==
    IF r.thr THEN r ELSE sFinish(sForEach(r.w, s, list, 1, arg, d), s, d)

PS_resolve(w, s, d) ==
    IF "completedCb" \in w.ps[s].gone THEN Done(w)
    ELSE sSettle(sSet(w, s, "result", [tag |-> 4, val |-> Undef]), s, "completedCb", Undef, d)

PS_reject(w, s, error, d) ==
    IF "errorCb" \in w.ps[s].gone THEN Done(w)
    ELSE sSettle(sSet(w, s, "result", [tag |-> 2, val |-> error]), s, "errorCb", error, d)

PS_cancel(w, s, d) ==
    IF "cancelCb" \in w.ps[s].gone THEN Done(w)
    ELSE sSettle(sSet(w, s, "result", [tag |-> 3, val |-> Undef]), s, "cancelCb", Undef, d)

\* the immediate call of a late observer: try { cb(arg) } catch { onError }
sLate(w, cb, arg, d) == Done(sCall(w, cb, arg, -1, d + 1).w)

sPush(w, s, list, cb) == [w EXCEPT !.ps[s][list] = Append(@, cb)]

onnext(w, s, cb) ==
    IF "nextCb" \notin w.ps[s].gone THEN sPush(w, s, "nextCb", cb) ELSE w

PS_onerror(w, s, cb, d) ==
    IF "errorCb" \in w.ps[s].gone
    THEN IF w.ps[s].result.tag = 2 THEN sLate(w, cb, w.ps[s].result.val, d) ELSE Done(w)
    ELSE Done(sPush(w, s, "errorCb", cb))

PS_oncancel(w, s, cb, d) ==
    IF "cancelCb" \in w.ps[s].gone
    THEN IF w.ps[s].result.tag = 3 THEN sLate(w, cb, Undef, d) ELSE Done(w)
    ELSE Done(sPush(w, s, "cancelCb", cb))

onfinish(w, s, cb, d) ==
    IF "completedCb" \in w.ps[s].gone
    THEN IF w.ps[s].result.tag = 4 THEN sLate(w, cb, Undef, d) ELSE Done(w)
    ELSE Done(sPush(w, s, "completedCb", cb))

PS_onend(w, s, cb, d) ==
    IF "endCb" \in w.ps[s].gone
    THEN IF Terminal(w.ps[s].result) THEN sLate(w, cb, Undef, d) ELSE Done(w)
    ELSE Done(sPush(w, s, "endCb", cb))

\* the rest of the loop of flushData, r being the outcome of its body for the
\* item at j
flushNext(r, s, j, d) == IF r.thr THEN r ELSE flushLoop(r.w, s, j + 1, d)

\* for (const data of this.unflusedData) { ... }, from the item at j
flushLoop(w, s, j, d) ==
    IF j > Len(w.ps[s].unflusedData) THEN Done(w)
    ELSE flushNext(deliver(w, s, w.ps[s].unflusedData[j], d), s, j, d)

\* if (this.result[0] !== 0 && this.result[0] !== 1) this.shrinkMemory()
\* (r is the outcome of delete this.unflusedData)
flushShrink(r, s) ==
    IF r.thr THEN r
    ELSE IF Terminal(r.w.ps[s].result) THEN PS_shrinkMemory(r.w, s)
    ELSE Done(r.w)

\* delete this.unflusedData and what follows (r is the outcome of the loop)
flushEnd(r, s) ==
    IF r.thr THEN r ELSE flushShrink(sDelete(r.w, s, "unflusedData"), s)

flushData(w, s, d) ==
    IF "unflusedData" \in w.ps[s].gone THEN Done(w)
    ELSE IF "nextCb" \in w.ps[s].gone THEN Done(w)
    ELSE flushEnd(flushLoop(w, s, 1, d), s)

\* (a variant: the index is not advanced)
_listen_sameIndex(w, s, cb, i, data, d) ==
    sCall(onnext(w, s, ListenBind(s, cb, i)), cb, data, i, d + 1)

\* this.onnext(this._listen.bind(this, cb, i + 1)); cb(data, i)
_listen(w, s, cb, i, data, d) ==
    sCall(onnext(w, s, ListenBind(s, cb, i + 1)), cb, data, i, d + 1)

listen(w, s, cb, d) ==
    IF "unflusedData" \in w.ps[s].gone THEN Throws(w, Error)
    ELSE flushData(onnext(w, s, ListenBind(s, cb, 0)), s, d + 1)

\* map(data, i) for the transform cb the application gave to map
transform(w, cb, data, i) ==
    IF cb.n = "tfpart" /\ data = Num(2) THEN Throws(w, Exc(cb.p, data))
    ELSE Returns(w, SRet(cb.p, data, i))

\* (a variant: the catch block drops the error)
mapCatch_drop(w, onErr, err, d) == Done(w)

\* catch (err) { onerror?.(err) }
mapCatch(w, onErr, err, d) ==
    IF onErr.n = "none" THEN Done(w) ELSE sCall(w, onErr, err, -1, d + 1)

\* (mlog and emitted are not of the program: r is the outcome of cb(data, i);
\* the call is recorded with the status of the derived Stream, and the value
\* handed to stream.emit with what the derived Stream was then)
noteMap(r, stream, data, i) ==
    [r EXCEPT !.w.mlog = Append(@, [d |-> stream, x |-> data, i |-> i, thr |-> r.thr,
                                    v |-> r.v, was |-> r.w.ps[stream].result.tag,
                                    n |-> Len(r.w.ps[stream].emitted)]),
              !.w.ps[stream].emitted =
                  IF r.thr THEN @
                  ELSE Append(@, [v |-> r.v, was |-> r.w.ps[stream].result.tag,
                                  kept |-> Len(r.w.ps[stream].unflusedData)])]

\* the catch of _map around stream.emit, r being the outcome of stream.emit
mapEmitted(r, onErr, d) ==
    IF r.thr THEN mapCatch(r.w, onErr, r.v, d) ELSE r

\* the try block of _map, r being the outcome of cb(data, i), and its catch
mapEmit(r, stream, onErr, d) ==
    IF r.thr THEN mapCatch(r.w, onErr, r.v, d)
    ELSE mapEmitted(PS_emit(r.w, stream, r.v, d + 1), onErr, d)

\* PStream._map(stream, cb, onerror, data, i)
_map(w, stream, cb, onErr, data, i, d) ==
    mapEmit(noteMap(transform(w, cb, data, i), stream, data, i), stream, onErr, d)

\* the rest of map, once the three observers are on the source s (n is the
\* derived Stream)
mapBind(w, s, n, cb, onErr, bindCancel, d) ==
    onnext((IF bindCancel THEN PS_oncancel(w, n, SBind("PS_cancel", s), d + 1).w ELSE w),
           s, ListenBind(s, MapBind(n, cb, onErr), 0))

\* s.map(cb, onerror, bindCancel); the derived Stream is the one made last
PS_map(w, s, cb, onErr, bindCancel, d) ==
    IF "unflusedData" \in w.ps[s].gone THEN Throws(w, Error)
    ELSE Done(mapBind(
             PS_onerror(
                 onfinish(
                     PS_oncancel([w EXCEPT !.ps = Append(@, NewPStream)], s,
                                 SBind("PS_cancel", Len(w.ps) + 1), d + 1).w,
                     s, SBind("PS_resolve", Len(w.ps) + 1), d + 1).w,
                 s, SBind("PS_reject", Len(w.ps) + 1), d + 1).w,
             s, Len(w.ps) + 1, cb, onErr, bindCancel, d))

\* a listen callback that, the first time it is called, calls s.listen(cb2)
\* on its own Stream s with a callback cb2 that only returns
relisten(w, s, d) ==
    listen([w EXCEPT !.sobs = Append(@, [on |-> s, list |-> "listen", act |-> "none",
                                         was |-> w.ps[s].result,
                                         kept |-> w.ps[s].unflusedData,
                                         first |-> FALSE])],
           s, SObsFn(Len(w.sobs) + 1), d + 1)

\* a listen callback that calls port.emit with the next item on its own
\* Stream s, as long as the producer has items left
reemit(w, s, d) ==
    IF Len(w.ps[s].emitted) < MaxEmits
    THEN PS_emit([w EXCEPT !.ps[s].emitted =
                     Append(@, [v |-> Num(Len(w.ps[s].emitted) + 1),
                                was |-> w.ps[s].result.tag,
                                kept |-> Len(w.ps[s].unflusedData)])],
                 s, Num(Len(w.ps[s].emitted) + 1), d + 1)
    ELSE Done(w)

\* an application callback: it is recorded with its arguments, then returns,
\* throws, or calls listen or emit as it was written to do
sobserver(w, o, data, i, d) ==
    IF w.sobs[o].act = "raise"
    THEN Throws([w EXCEPT !.scalls = Append(@, [o |-> o, arg |-> data, i |-> i])], Err(0))
    ELSE IF w.sobs[o].act = "emit"
    THEN reemit([w EXCEPT !.scalls = Append(@, [o |-> o, arg |-> data, i |-> i])],
                w.sobs[o].on, d)
    ELSE IF w.sobs[o].act = "listen" /\ \A j \in 1..Len(w.scalls) : w.scalls[j].o # o
    THEN relisten([w EXCEPT !.scalls = Append(@, [o |-> o, arg |-> data, i |-> i])],
                  w.sobs[o].on, d)
    ELSE Done([w EXCEPT !.scalls = Append(@, [o |-> o, arg |-> data, i |-> i])])

sCall(w, c, data, i, d) ==
    IF d > MaxDepth THEN Throws(w, RangeError)
    ELSE CASE c.n = "sobs" -> sobserver(w, c.p, data, i, d)
           [] c.n = "_listen" -> _listen(w, c.p, c.cb, c.i, data, d)
           [] c.n = "_map" -> _map(w, c.p, c.cb, c.g, data, i, d)
           [] c.n = "PS_cancel" -> PS_cancel(w, c.p, d)
           [] c.n = "PS_resolve" -> PS_resolve(w, c.p, d)
           [] c.n = "PS_reject" -> PS_reject(w, c.p, data, d)

(* The calls the application makes on a Stream. *)

SWorld == [ps |-> ps, sobs |-> sobs, scalls |-> scalls, smaps |-> smaps, mlog |-> mlog]

\* the heap after the call of outcome r; a call that throws is recorded
SCommit(r, op) ==
    /\ ps' = r.w.ps
    /\ sobs' = r.w.sobs
    /\ scalls' = r.w.scalls
    /\ smaps' = r.w.smaps
    /\ mlog' = r.w.mlog
    /\ raised' = IF r.thr THEN raised \cup {[op |-> op, e |-> r.v]} ELSE raised
    /\ UNCHANGED <<fvars, uvars>>

\* $stream()
Stream ==
    /\ Len(ps) < MaxStreams
    /\ ps' = Append(ps, NewPStream)
    /\ UNCHANGED <<sobs, scalls, raised, smaps, mlog>>
    /\ UNCHANGED <<fvars, uvars>>

\* port.emit(Num(v)); the call is recorded with what the Stream was then
Emit(s, v) ==
    /\ Len(ps[s].emitted) < MaxEmits
    /\ SCommit(PS_emit([SWorld EXCEPT !.ps[s].emitted =
                           Append(@, [v |-> Num(v), was |-> ps[s].result.tag,
                                      kept |-> Len(ps[s].unflusedData)])],
                       s, Num(v), 0), "emit")

\* port.return()
SReturn(s) == SCommit(PS_resolve(SWorld, s, 0), "return")

\* port.throw(Err(e))
SThrow(s, e) == SCommit(PS_reject(SWorld, s, Err(e), 0), "throw")

\* s.cancel()
SCancel(s) == SCommit(PS_cancel(SWorld, s, 0), "cancel")

NewSObs(s, list, act) ==
    [on |-> s, list |-> list, act |-> act, was |-> ps[s].result,
     kept |-> IF "unflusedData" \in ps[s].gone THEN <<>> ELSE ps[s].unflusedData,
     first |-> "unflusedData" \notin ps[s].gone]

SRegister(w, s, list, cb) ==
    CASE list = "nextCb" -> Done(onnext(w, s, cb))
      [] list = "errorCb" -> PS_onerror(w, s, cb, 0)
      [] list = "cancelCb" -> PS_oncancel(w, s, cb, 0)
      [] list = "completedCb" -> onfinish(w, s, cb, 0)
      [] list = "endCb" -> PS_onend(w, s, cb, 0)

\* s.onnext(cb) / s.onerror(cb) / s.oncancel(cb) / s.onfinish(cb) / s.onend(cb)
SObserve(s, list, act) ==
    /\ Len(sobs) < MaxSObs
    /\ SCommit(SRegister([SWorld EXCEPT !.sobs = Append(@, NewSObs(s, list, act))],
                         s, list, SObsFn(Len(sobs) + 1)), list)

\* s.listen(cb)
Listen(s, act) ==
    /\ Len(sobs) < MaxSObs
    /\ SCommit(listen([SWorld EXCEPT !.sobs = Append(@, NewSObs(s, "listen", act))],
                      s, SObsFn(Len(sobs) + 1), 0), "listen")

\* s.flushData()
Flush(s) == SCommit(flushData(SWorld, s, 0), "flushData")

\* d = s.map(cb, onerror, bindCancel); onerror is left out or is a callback of
\* the application that only returns
SMap(s, cb, withOnerror, bindCancel) ==
    /\ Len(smaps) < MaxSMaps
    /\ withOnerror => Len(sobs) < MaxSObs
    /\ SCommit(PS_map([SWorld EXCEPT
                       !.smaps = Append(@, [s |-> s, d |-> Len(ps) + 1, cb |-> cb,
                                            bind |-> bindCancel, was |-> ps[s].result,
                                            g |-> IF withOnerror THEN Len(sobs) + 1 ELSE 0,
                                            ok |-> "unflusedData" \notin ps[s].gone]),
                       !.sobs = IF withOnerror
                                THEN Append(@, NewSObs(s, "maperr", "none"))
                                ELSE @],
                    s, cb, IF withOnerror THEN SObsFn(Len(sobs) + 1) ELSE NoFn,
                    bindCancel, 0), "map")

\* the rest of the static emit, r being the outcome of stream.emit(value)
PStream_emitted(r, s, d) == IF r.thr THEN r ELSE PS_resolve(r.w, s, d + 1)

\* PStream.emit(value): const stream = new PStream(); stream.emit(value);
\* stream.resolve(); the Stream is the one made last
PStream_emit(w, value, d) ==
    PStream_emitted(PS_emit([w EXCEPT !.ps = Append(@,
                                [NewPStream EXCEPT !.emitted =
                                    <<[v |-> value, was |-> 0, kept |-> 0]>>])],
                            Len(w.ps) + 1, value, d + 1),
                    Len(w.ps) + 1, d)

\* s = PStream.emit(Num(v))
StaticEmit(v) ==
    /\ Len(ps) < MaxStreams
    /\ SCommit(PStream_emit(SWorld, Num(v), 0), "PStream.emit")

\* the Streams made by $stream: the application holds their port
Ported(s) == \A k \in 1..Len(smaps) : smaps[k].d # s

SActs == {"none", "raise"}

NextStream ==
    \/ Stream
    \/ \E s \in 1..Len(ps), v \in 1..MaxVal : Emit(s, v)
    \/ \E s \in 1..Len(ps) : SReturn(s)
    \/ \E s \in 1..Len(ps), e \in 1..MaxVal : SThrow(s, e)
    \/ \E s \in 1..Len(ps) : SCancel(s)
    \/ \E s \in 1..Len(ps), list \in SLists, act \in SActs : SObserve(s, list, act)
    \/ \E s \in 1..Len(ps), act \in SActs : Listen(s, act)

SpecStream == Init /\ [][NextStream]_vars

\* an application that derives Streams with map; the producer emits the items
\* 1, 2, ... on the Streams made by $stream
NextSMap ==
    \/ Stream
    \/ \E s \in 1..Len(ps), cb \in {STf(1), SPartialTf(1)}, g, b \in BOOLEAN :
           SMap(s, cb, g, b)
    \/ \E s \in 1..Len(ps) : Ported(s) /\ Emit(s, Len(ps[s].emitted) + 1)
    \/ \E s \in 1..Len(ps) : Ported(s) /\ SReturn(s)
    \/ \E s \in 1..Len(ps) : Ported(s) /\ SThrow(s, 1)
    \/ \E s \in 1..Len(ps) : SCancel(s)
    \/ \E s \in 1..Len(ps) : Listen(s, "none")
    \/ \E s \in 1..Len(ps) : Flush(s)

SpecSMap == Init /\ [][NextSMap]_vars

\* an application that derives Streams with map, observes how the Streams end
\* and cancels them
NextSBind ==
    \/ Stream
    \/ \E s \in 1..Len(ps), b \in BOOLEAN : SMap(s, STf(1), FALSE, b)
    \/ \E s \in 1..Len(ps) : Ported(s) /\ Emit(s, Len(ps[s].emitted) + 1)
    \/ \E s \in 1..Len(ps) : Ported(s) /\ SReturn(s)
    \/ \E s \in 1..Len(ps) : SCancel(s)
    \/ \E s \in 1..Len(ps), list \in {"cancelCb", "endCb"} : SObserve(s, list, "none")
    \/ \E s \in 1..Len(ps) : Flush(s)

SpecSBind == Init /\ [][NextSBind]_vars

\* an application whose listen callbacks may throw or call listen themselves;
\* the producer emits the items 1, 2, ...
NextListen ==
    \/ Stream
    \/ \E s \in 1..Len(ps) : Emit(s, Len(ps[s].emitted) + 1)
    \/ \E s \in 1..Len(ps) : SReturn(s)
    \/ \E s \in 1..Len(ps) : SCancel(s)
    \/ \E s \in 1..Len(ps), act \in SActs \cup {"listen"} : Listen(s, act)
    \/ \E s \in 1..Len(ps) : Flush(s)

SpecListen == Init /\ [][NextListen]_vars

\* an application whose listen callbacks may throw or emit the next item
\* themselves; the producer emits the items 1, 2, ...
NextReemit ==
    \/ Stream
    \/ \E s \in 1..Len(ps) : Emit(s, Len(ps[s].emitted) + 1)
    \/ \E s \in 1..Len(ps) : SReturn(s)
    \/ \E s \in 1..Len(ps) : SThrow(s, 1)
    \/ \E s \in 1..Len(ps) : SCancel(s)
    \/ \E s \in 1..Len(ps), act \in SActs \cup {"emit"} : Listen(s, act)
    \/ \E s \in 1..Len(ps) : Flush(s)

SpecReemit == Init /\ [][NextReemit]_vars

\* an application that consumes Streams that may have terminated before:
\* Streams built by PStream.emit(value) and Streams of a producer
NextStatic ==
    \/ Stream
    \/ \E v \in 1..MaxVal : StaticEmit(v)
    \/ \E s \in 1..Len(ps) : Emit(s, Len(ps[s].emitted) + 1)
    \/ \E s \in 1..Len(ps) : SReturn(s)
    \/ \E s \in 1..Len(ps) : SCancel(s)
    \/ \E s \in 1..Len(ps), act \in SActs : Listen(s, act)
    \/ \E s \in 1..Len(ps) : Flush(s)

SpecStatic == Init /\ [][NextStatic]_vars

\* an application whose callbacks may throw, on Futures or on a Stream
NextThrow ==
    \/ /\ ps = <<>>
       /\ \/ \E c \in BOOLEAN : Async(c, MaxSources)
          \/ Settle
          \/ \E p \in 1..Len(pp), list \in CbNames, act \in SActs : Observe(p, list, act)
    \/ /\ pp = <<>>
       /\ NextStream

SpecThrow == Init /\ [][NextThrow]_vars

----------------------------------------------------------------------------
(* The properties. *)

Resolved(v) == [tag |-> 1, val |-> v]
Rejected(e) == [tag |-> 2, val |-> e]
Canceled == [tag |-> 3, val |-> Undef]

\* p's result was assigned r at some moment
Became(p, r) == \E j \in 1..Len(hist[p]) : hist[p][j] = r

Derived == Range(derived)
Alls == {a \in Range(aggs) : a.op = "all"}
AllCompleteds == {a \in Range(aggs) : a.op = "allCompleted"}

\* the outcome of an element of an aggregate's data
ElemSettled(x) ==
    CASE x.k = "pp" -> pp[x.n].result.tag # 0
      [] x.k = "np" -> np[x.n].st # "pending"
      [] OTHER -> TRUE
ElemOk(x) ==
    CASE x.k = "pp" -> pp[x.n].result.tag = 1
      [] x.k = "np" -> np[x.n].st = "fulfilled"
      [] OTHER -> TRUE
ElemRejected(x) ==
    CASE x.k = "pp" -> pp[x.n].result.tag = 2
      [] x.k = "np" -> np[x.n].st = "rejected"
      [] OTHER -> FALSE
ElemVal(x) ==
    CASE x.k = "pp" -> pp[x.n].result.val
      [] x.k = "np" -> np[x.n].val
      [] OTHER -> x
\* the error an element hands to the aggregate: its own, or the sentinel when
\* it was cancelled
ElemError(x) ==
    CASE x.k = "pp" -> IF pp[x.n].result.tag = 3 THEN CancelError ELSE pp[x.n].result.val
      [] x.k = "np" -> np[x.n].val
      [] OTHER -> Undef

\* C1: once the result of a Future has left Pending, every later assignment (if
\* any) stores the same status and the same value: it never changes.
C1_SettlesAtMostOnce ==
    \A p \in 1..Len(pp) : \A j \in 1..Len(hist[p]) : hist[p][j] = hist[p][1]

\* C2: once every element of all(data) has settled successfully and no microtask
\* is left, the aggregate is Resolved with element i's value at position i.
C2_AllResolvesInOrder ==
    \A a \in Alls :
        (jobs = <<>> /\ a.out \notin ucancel /\ \A j \in 1..Len(a.data) : ElemOk(a.data[j]))
        => pp[a.out].result = Resolved(Arr([j \in 1..Len(a.data) |-> ElemVal(a.data[j])]))

\* C3: once every element of allCompleted(data) has settled, whatever its outcome,
\* and no microtask is left, the returned Future is Resolved.
C3_AllCompletedResolves ==
    \A a \in AllCompleteds :
        (jobs = <<>> /\ a.out \notin ucancel
           /\ \A j \in 1..Len(a.data) : ElemSettled(a.data[j]))
        => pp[a.out].result.tag = 1

\* C4: once all(data), called with bindCancel, has observed the rejection of an
\* element while Pending, no other element that is a cancelable PPromise is
\* still Pending.
C4_AllRejectCancelsSiblings ==
    \A a \in Alls :
        (a.bind /\ ast[a.sid].rejs # <<>> /\ ast[a.sid].rejs[1].was = 0)
        => \A j \in 1..Len(a.data) :
              (j # ast[a.sid].rejs[1].i + 1 /\ a.data[j].k = "pp"
                 /\ pp[a.data[j].n].cancelable)
              => pp[a.data[j].n].result.tag # 0

\* C5: all rejects with the error of the first element rejection it observes,
\* unchanged, as soon as it observes it (the aggregate being Pending then), and
\* with no other error; once Rejected its result is never assigned again.
C5_AllRejectsWithFirstError ==
    \A a \in Alls :
        LET st == ast[a.sid] IN
        /\ \A j \in 1..Len(hist[a.out]) :
              hist[a.out][j].tag = 2
              => /\ st.rejs # <<>>
                 /\ hist[a.out][j].val = st.rejs[1].error
                 /\ j = Len(hist[a.out])
        /\ st.rejs # <<>>
           => /\ st.rejs[1].error = ElemError(a.data[st.rejs[1].i + 1])
              /\ st.rejs[1].was = 0 => pp[a.out].result = Rejected(st.rejs[1].error)

\* a second rejection, with another error, reached the aggregate after the first
C5_Witness ==
    \E a \in Alls :
        /\ Len(ast[a.sid].rejs) >= 2
        /\ ast[a.sid].rejs[1].error # ast[a.sid].rejs[2].error
        /\ pp[a.out].result = Rejected(ast[a.sid].rejs[1].error)

\* C6: the Future returned by allCompleted is never Rejected.
C6_AllCompletedNeverRejected ==
    \A a \in AllCompleteds : ~(\E j \in 1..Len(hist[a.out]) : hist[a.out][j].tag = 2)

\* C7: a Future on which cancel() was called while it was Pending and cancelable
\* is Canceled from then on.
C7_CancelLeavesCanceled == \A p \in ucancel : pp[p].result = Canceled

\* then(f) without onrejected
ThenF == {r \in Derived : r.h = ThrowCancel /\ r.f.n # "none" /\ r.g.n = "none"}

\* C8: for d = s.then(f) on a Pending cancelable s: if s is cancelled before it
\* settles, d becomes Rejected with the CancelError; and when the application
\* calls d.cancel() on the Pending d, s becomes Canceled.
C8_ThenCancel ==
    \A r \in ThenF :
        (r.was = 0 /\ pp[r.s].cancelable)
        => /\ (hist[r.s] # <<>> /\ hist[r.s][1] = Canceled)
                => Became(r.d, Rejected(CancelError))
           /\ r.d \in ucancel => Became(r.s, Canceled)

\* C9: in a step in which the application cancels a Pending derived Future d, the
\* source becomes Canceled when d was made with bindCancel, and is left as it was
\* (status and observer lists) when it was not; in a step in which a Pending
\* source is cancelled, d leaves Pending, and becomes Canceled when no oncanceled
\* transform was given.
C9_Step ==
    \A r \in Derived :
        /\ (r.d \in ucancel' /\ r.d \notin ucancel)
           => IF r.bind THEN pp[r.s].result.tag = 0 /\ Became(r.s, Canceled)'
              ELSE pp'[r.s] = pp[r.s]
        /\ (hist[r.s] = <<>> /\ hist'[r.s] # <<>> /\ hist'[r.s][1] = Canceled)
           => /\ pp'[r.d].result.tag # 0
              /\ r.h.n = "none" => Became(r.d, Canceled)'

C9_BindCancel == [][C9_Step]_vars

\* what d = s.map(f, g, h) is to settle with when s settles with x
Expected(r, x) ==
    CASE x.tag = 1 -> IF r.f.n # "none" THEN Resolved(Ret(r.f.p, x.val)) ELSE x
      [] x.tag = 2 -> IF r.g.n # "none" THEN Resolved(Ret(r.g.p, x.val)) ELSE x
      [] x.tag = 3 ->
           IF r.h.n = "fn" THEN Resolved(Ret(r.h.p, Undef))
           ELSE IF r.h.n = "none" THEN Canceled
           ELSE IF r.g.n # "none" THEN Resolved(Ret(r.g.p, CancelError))
           ELSE Rejected(CancelError)

\* C10: for d = s.map(f?, g?, h?): in a step in which s leaves Pending while d is
\* Pending (or in which d is derived from a settled s), d ends with the outcome
\* that goes with the way s settled: f(v), or v if f is absent, when s resolved
\* with v; g(e), or Rejected with e if g is absent, when s rejected with e; h(),
\* or Canceled if h is absent, when s was cancelled.
C10_Step ==
    \A r \in Range(derived') :
        IF r \in Derived
        THEN (hist[r.s] = <<>> /\ hist[r.d] = <<>> /\ hist'[r.s] # <<>>)
             => pp'[r.d].result = Expected(r, hist'[r.s][1])
        ELSE r.was # 0 => pp'[r.d].result = Expected(r, pp[r.s].result)

C10_MapOutcome == [][C10_Step]_vars

\* C11: when a transform of map throws while the derived Future is Pending, the
\* derived Future is Rejected with the thrown value if no onrejected was given;
\* if one was given it is applied to the thrown value and the derived Future
\* settles with its result (Resolved with what it returns, Rejected with what it
\* throws).  (A catch block that the exhausted call stack cut short routes
\* nothing: no call of it was made.)
C11_ThrowRouting ==
    \A j \in 1..Len(pipes) :
        LET t == pipes[j] IN
        t.was = 0 /\ ~t.cut
        => pp[t.p].result =
              CASE t.g.n = "none" -> Rejected(t.e)
                [] t.g.n = "fn" -> Resolved(Ret(t.g.p, t.e))
                [] t.g.n = "throw" -> Rejected(Exc(t.g.p, t.e))

\* an onfulfilled or oncanceled transform threw with no onrejected, and another
\* one threw with an onrejected that returns
C11_Witness ==
    \E i, j \in 1..Len(pipes) :
        /\ pipes[i].was = 0 /\ pipes[i].g.n = "none" /\ pipes[i].e.n \in {1, 3}
        /\ ~pipes[i].cut /\ ~pipes[j].cut
        /\ pp[pipes[i].p].result = Rejected(pipes[i].e)
        /\ pipes[j].was = 0 /\ pipes[j].g.n = "fn" /\ pipes[j].e.n \in {1, 3}
        /\ pp[pipes[j].p].result = Resolved(Ret(2, pipes[j].e))

\* how many times the application callback o was invoked
Invoked(o) == Cardinality({j \in 1..Len(calls) : calls[j].o = o})

\* the result tag a callback list is for
TagOf(list) ==
    CASE list = "dataCb" -> 1 [] list = "errorCb" -> 2 [] list = "cancelCb" -> 3
      [] OTHER -> 0

\* C12: once a Future is terminal after a call has returned, no step changes its
\* result or assigns it again, and the only callbacks of the Future a step invokes
\* are those the step itself registers (which a later resolve, reject or cancel
\* does not do).
C12_Step ==
    \A p \in 1..Len(pp) :
        pp[p].result.tag # 0
        => /\ pp'[p].result = pp[p].result
           /\ hist'[p] = hist[p]
           /\ \A j \in (Len(calls) + 1)..Len(calls') :
                 obs'[calls'[j].o].on = p => calls'[j].o > Len(obs)

C12_SettledIsFinal == [][C12_Step]_vars

\* a callback registered on a Resolved Future was invoked and called
\* port.return(0) from there: the Future still holds the first value
C12_Witness ==
    \E o \in 1..Len(obs) :
        /\ obs[o].act = "return" /\ obs[o].list = "dataCb"
        /\ obs[o].was.tag = 1 /\ obs[o].was.val # Num(0)
        /\ Invoked(o) = 1
        /\ pp[obs[o].on].result = obs[o].was
        /\ hist[obs[o].on] = <<obs[o].was>>

\* C13: a callback handed to ondata while the Future is Resolved with x (to
\* onerror while Rejected with e, to oncancel while Canceled) has been invoked
\* exactly once, with x (with e, with nothing), when the call that registered it
\* is over - also when it was registered from inside an observer.
C13_LateJoinReplay ==
    \A o \in 1..Len(obs) :
        (obs[o].was.tag # 0 /\ obs[o].was.tag = TagOf(obs[o].list))
        => /\ Invoked(o) = 1
           /\ \A j \in 1..Len(calls) : calls[j].o = o => calls[j].arg = obs[o].was.val

\* C14: every callback the application registered with ondata, onerror, oncancel
\* or onend has been invoked at most once.
C14_AtMostOnce == \A o \in 1..Len(obs) : Invoked(o) <= 1

\* C15: a callback registered with ondata, onerror or oncancel has been invoked
\* only if the Future's outcome is the one it was registered for, and once the
\* Future is terminal every onend callback has been invoked exactly once.
C15_MatchingOutcomeOnly ==
    \A o \in 1..Len(obs) :
        /\ (obs[o].list # "endCb" /\ Invoked(o) > 0)
           => pp[obs[o].on].result.tag = TagOf(obs[o].list)
        /\ (obs[o].list = "endCb" /\ pp[obs[o].on].result.tag # 0) => Invoked(o) = 1

\* C16: a Future that is not cancelable is never assigned Canceled, its cancel
\* list stays empty, and no callback handed to its oncancel is ever invoked.
C16_NonCancelable ==
    \A p \in 1..Len(pp) :
        ~pp[p].cancelable
        => /\ pp[p].cancelCb = <<>>
           /\ \A j \in 1..Len(hist[p]) : hist[p][j].tag # 3
           /\ \A o \in 1..Len(obs) :
                 (obs[o].on = p /\ obs[o].list = "cancelCb") => Invoked(o) = 0

\* on a Future that is not cancelable a callback was handed to oncancel, and
\* cancel() was called (by a data observer) when it resolved
C16_Witness ==
    \E o1, o2 \in 1..Len(obs) :
        /\ obs[o1].on = obs[o2].on /\ ~pp[obs[o1].on].cancelable
        /\ obs[o1].list = "cancelCb"
        /\ obs[o2].list = "dataCb" /\ obs[o2].act = "cancel" /\ Invoked(o2) = 1
        /\ pp[obs[o1].on].result.tag = 1

\* the invocations of application callbacks made in the step
NewCalls == (Len(calls) + 1)..Len(calls')
NewSCalls == (Len(scalls) + 1)..Len(scalls')

\* how many times the step invoked the callback o of a Future / of a Stream
StepInvoked(o) == Cardinality({j \in NewCalls : calls'[j].o = o})
SStepInvoked(o) == Cardinality({j \in NewSCalls : scalls'[j].o = o})

\* the callback list of a Stream that goes with a terminal result tag
SListOf(tag) ==
    CASE tag = 2 -> "errorCb" [] tag = 3 -> "cancelCb" [] tag = 4 -> "completedCb"
      [] OTHER -> "none"
ListOf(tag) ==
    CASE tag = 1 -> "dataCb" [] tag = 2 -> "errorCb" [] tag = 3 -> "cancelCb"
      [] OTHER -> "none"

\* the application callback behind an entry of nextCb
Behind(c) == IF c.n = "_listen" THEN c.cb.p ELSE c.p

\* C17: in a step in which a callback of the application throws, no exception
\* reaches the caller; a Future or Stream that the step settles is terminal
\* with its observer lists released, and every callback registered for that
\* outcome or with onend was invoked once; an emit made after the flush invoked
\* every callback that was in nextCb, once.
C17_Step ==
    ((\E j \in NewCalls : obs'[calls'[j].o].act = "raise")
        \/ (\E j \in NewSCalls : sobs'[scalls'[j].o].act = "raise"))
    => /\ raised' = raised
       /\ \A p \in 1..Len(pp) :
             (pp[p].result.tag = 0 /\ hist'[p] # <<>>)
             => /\ pp'[p].result.tag # 0
                /\ pp'[p].gone = CbNames
                /\ \A o \in 1..Len(obs) :
                      (obs[o].on = p
                         /\ obs[o].list \in {ListOf(pp'[p].result.tag), "endCb"})
                      => StepInvoked(o) = 1
       /\ \A s \in 1..Len(ps) :
             /\ (~Terminal(ps[s].result) /\ Terminal(ps'[s].result))
                => /\ ps'[s].frozen
                   /\ \A o \in 1..Len(sobs) :
                         (sobs[o].on = s
                            /\ sobs[o].list \in {SListOf(ps'[s].result.tag), "endCb"})
                         => SStepInvoked(o) = 1
             /\ (Len(ps'[s].emitted) > Len(ps[s].emitted)
                   /\ "unflusedData" \in ps[s].gone /\ "nextCb" \notin ps[s].gone)
                => \A k \in 1..Len(ps[s].nextCb) :
                      SStepInvoked(Behind(ps[s].nextCb[k])) = 1

C17_ThrowIsolated == [][C17_Step]_vars

\* two onfinish callbacks of a Stream, the first of which throws, were both
\* invoked by port.return(), and nothing was thrown to the application
C17_Witness ==
    \E o1, o2 \in 1..Len(sobs) :
        /\ o1 < o2 /\ sobs[o1].on = sobs[o2].on
        /\ sobs[o1].list = "completedCb" /\ sobs[o2].list = "completedCb"
        /\ sobs[o1].act = "raise" /\ sobs[o2].act = "none"
        /\ sobs[o1].was.tag \in {0, 1} /\ sobs[o2].was.tag \in {0, 1}
        /\ Cardinality({j \in 1..Len(scalls) : scalls[j].o = o1}) = 1
        /\ Cardinality({j \in 1..Len(scalls) : scalls[j].o = o2}) = 1
        /\ ps[sobs[o1].on].result.tag = 4 /\ ps[sobs[o1].on].frozen
        /\ raised = {}

\* the values of the emit calls made on s so far, in order
Emitted(s) == [k \in 1..Len(ps[s].emitted) |-> ps[s].emitted[k].v]

\* the step is a call of s.listen(cb) on a Stream that still has its buffer
FirstListen(s) ==
    /\ Len(sobs') = Len(sobs) + 1
    /\ sobs'[Len(sobs')].on = s /\ sobs'[Len(sobs')].list = "listen"
    /\ "unflusedData" \notin ps[s].gone

\* C18: the buffer of a Stream holds the emitted values in arrival order, and a
\* call of listen(cb) on it invokes cb(item, index) for each of them, in that
\* order and with the indexes 0, 1, 2, ..., and removes the buffer.
C18_Step ==
    \A s \in 1..Len(ps) :
        FirstListen(s)
        => /\ ps[s].unflusedData = Emitted(s)
           /\ LET o == Len(sobs')
                  got == {j \in NewSCalls : scalls'[j].o = o}
              IN  /\ Cardinality(got) = Len(ps[s].unflusedData)
                  /\ \A j \in got :
                        LET k == Cardinality({i \in got : i <= j})
                        IN  /\ scalls'[j].arg = ps[s].unflusedData[k]
                            /\ scalls'[j].i = k - 1
           /\ "unflusedData" \in ps'[s].gone

C18_ListenDeliversBuffer == [][C18_Step]_vars

\* C19: an emit on a Stream that is terminal changes nothing of the Stream (its
\* buffer included), invokes no callback and throws nothing.
C19_Step ==
    \A s \in 1..Len(ps) :
        (Terminal(ps[s].result) /\ Len(ps'[s].emitted) > Len(ps[s].emitted))
        => /\ ps'[s] = [ps[s] EXCEPT !.emitted = ps'[s].emitted]
           /\ scalls' = scalls
           /\ raised' = raised

C19_EmitAfterEnd == [][C19_Step]_vars

\* C20: the status of a Stream goes from Pending to Emitting at the first emit,
\* from Pending or Emitting to Resolved, Rejected or Canceled, and never changes
\* once terminal; on a terminal Stream a call of return, throw or cancel invokes
\* no callback and throws nothing.
C20_Step ==
    \A s \in 1..Len(ps) :
        /\ ps[s].result.tag = 0
           => IF Len(ps'[s].emitted) > Len(ps[s].emitted) THEN ps'[s].result.tag = 1
              ELSE ps'[s].result.tag \in {0, 2, 3, 4}
        /\ ps[s].result.tag = 1 => ps'[s].result.tag \in {1, 2, 3, 4}
        /\ Terminal(ps[s].result)
           => /\ ps'[s].result = ps[s].result
              /\ \A x \in raised' \ raised : x.op \notin {"return", "throw", "cancel"}
              /\ (sobs' = sobs /\ ps'[s].emitted = ps[s].emitted) => scalls' = scalls

C20_StreamStatus == [][C20_Step]_vars

\* C21: when map was called with bindCancel and neither Stream is terminal, a
\* call of cancel on the derived Stream or on the source leaves both Streams
\* Canceled and invokes every cancel and end callback registered on either of
\* them exactly once.
C21_Step ==
    \A k \in 1..Len(smaps) :
        LET m == smaps[k] IN
        (m.ok /\ m.bind /\ ~Terminal(ps[m.s].result) /\ ~Terminal(ps[m.d].result)
           /\ (ps'[m.s].result.tag = 3 \/ ps'[m.d].result.tag = 3))
        => /\ ps'[m.s].result.tag = 3 /\ ps'[m.d].result.tag = 3
           /\ \A o \in 1..Len(sobs) :
                 (sobs[o].on \in {m.s, m.d} /\ sobs[o].list \in {"cancelCb", "endCb"})
                 => SStepInvoked(o) = 1

C21_BindCancelBothWays == [][C21_Step]_vars

\* C22: when a source Stream becomes terminal its map-derived Stream, if not
\* yet terminal, ends with the same result (Resolved, Rejected with the same
\* error, or Canceled); and a Stream derived by map from a source that is
\* already terminal, with its buffer not yet flushed, has the result of the
\* source when map returns.
C22_Step ==
    /\ \A k \in 1..Len(smaps) :
           LET m == smaps[k] IN
           (m.ok /\ ~Terminal(ps[m.s].result) /\ ~Terminal(ps[m.d].result)
              /\ Terminal(ps'[m.s].result))
           => ps'[m.d].result = ps'[m.s].result
    /\ \A k \in (Len(smaps) + 1)..Len(smaps') :
           LET m == smaps'[k] IN
           (m.ok /\ Terminal(ps[m.s].result))
           => ps'[m.d].result = ps[m.s].result

C22_TerminationPropagates == [][C22_Step]_vars

\* the callbacks given to listen on the Stream s, while s still had its buffer
Listeners(s) ==
    {o \in 1..Len(sobs) : sobs[o].on = s /\ sobs[o].list = "listen" /\ sobs[o].first}

\* C23: once d = s.map(f) and d.listen(cb) were called, with f a transform that
\* returns, an item that the producer emits on s while neither Stream is
\* terminal is delivered to cb, as f's result for it, by that very emit.
C23_Step ==
    \A k \in 1..Len(smaps) :
        LET m == smaps[k] IN
        (m.ok /\ m.cb.n = "tf"
           /\ ~Terminal(ps[m.s].result) /\ ~Terminal(ps[m.d].result)
           /\ Len(ps'[m.s].emitted) > Len(ps[m.s].emitted))
        => \A o \in Listeners(m.d) :
              \E j \in NewSCalls, i \in 0..MaxEmits :
                  /\ scalls'[j].o = o
                  /\ scalls'[j].arg = SRet(m.cb.p, ps'[m.s].emitted[Len(ps'[m.s].emitted)].v, i)

C23_MappedItemsReachListener == [][C23_Step]_vars

\* the calls of the transform of the derived Stream d so far, in order
Fed(d) == SelectSeq(mlog, LAMBDA t : t.d = d)

\* C24: for d = s.map(t), the k-th item x delivered to the derivation is
\* transformed as t(x, k - 1); the items delivered are the items emitted on s,
\* in the order of s; and what t returns is handed to d.emit, so that the
\* values emitted on d are the results in the same order.
C24_MapInOrder ==
    \A k \in 1..Len(smaps) :
        LET m == smaps[k]
            fed == Fed(m.d)
            out == SelectSeq(fed, LAMBDA t : ~t.thr)
        IN  m.ok
            => /\ Len(fed) <= Len(ps[m.s].emitted)
               /\ \A j \in 1..Len(fed) :
                     /\ fed[j].x = ps[m.s].emitted[j].v
                     /\ fed[j].i = j - 1
                     /\ ~fed[j].thr => fed[j].v = SRet(m.cb.p, fed[j].x, j - 1)
               /\ Emitted(m.d) = [j \in 1..Len(out) |-> out[j].v]

\* three items went through a transform that returns, and are on d in order
C24_Witness ==
    \E k \in 1..Len(smaps) :
        /\ smaps[k].ok /\ smaps[k].cb.n = "tf"
        /\ Len(Fed(smaps[k].d)) = 3
        /\ Emitted(smaps[k].d) = [j \in 1..3 |-> SRet(smaps[k].cb.p, Num(j), j - 1)]

\* the calls of the transform of the derived Stream d that the step made
NewFed(d) == {j \in (Len(mlog) + 1)..Len(mlog') : mlog'[j].d = d}

\* C25: in a step in which the transform of d = s.map(t, onError) throws for an
\* item, onError (when given) is called once with each thrown error and no
\* exception reaches the caller; d.emit is called for the items of the step
\* that t returned for and for no other; s changes status only as the emit
\* of the step does and d, if t returned for no item, not at all; and every
\* item of the step was handed to t: the whole buffer when the step flushes a
\* source that is not terminal, the emitted item when the source is flushed.
C25_Step ==
    \A k \in 1..Len(smaps) :
        LET m == smaps[k]
            thrown == {j \in NewFed(m.d) : mlog'[j].thr}
        IN  (m.ok /\ thrown # {})
            => /\ raised' = raised
               /\ m.g # 0
                  => /\ SStepInvoked(m.g) = Cardinality(thrown)
                     /\ \A j \in thrown : \E c \in NewSCalls :
                           scalls'[c].o = m.g /\ scalls'[c].arg = mlog'[j].v
               /\ Len(ps'[m.d].emitted) - Len(ps[m.d].emitted)
                      = Cardinality(NewFed(m.d) \ thrown)
               /\ \/ ps'[m.s].result = ps[m.s].result
                  \/ /\ Len(ps'[m.s].emitted) > Len(ps[m.s].emitted)
                     /\ ps[m.s].result.tag = 0 /\ ps'[m.s].result.tag = 1
               /\ NewFed(m.d) = thrown => ps'[m.d].result = ps[m.d].result
               /\ ~Terminal(ps[m.s].result)
                  => Cardinality(NewFed(m.d)) =
                        IF "unflusedData" \in ps[m.s].gone THEN 1
                        ELSE Len(ps[m.s].unflusedData)

C25_TransformThrowIsLocal == [][C25_Step]_vars

\* the transform threw for the second of three items, onError was called with
\* that error, and the first and the third item are on the derived Stream
C25_Witness ==
    \E k \in 1..Len(smaps) :
        LET m == smaps[k] IN
        /\ m.ok /\ m.g # 0 /\ Len(Fed(m.d)) = 3
        /\ Fed(m.d)[2].thr /\ ~Fed(m.d)[3].thr
        /\ \E c \in 1..Len(scalls) :
              scalls[c].o = m.g /\ scalls[c].arg = Exc(m.cb.p, Num(2))
        /\ Emitted(m.d) = <<SRet(m.cb.p, Num(1), 0), SRet(m.cb.p, Num(3), 2)>>
        /\ ~Terminal(ps[m.s].result) /\ ~Terminal(ps[m.d].result)
        /\ raised = {}

\* C26: of two calls of listen on the same Stream the second one throws and
\* its callback is never invoked, and no listen callback is invoked twice with
\* the same item (the items emitted here are all different).
C26_ListenOnce ==
    /\ \A o1, o2 \in 1..Len(sobs) :
           (o1 < o2 /\ sobs[o1].list = "listen" /\ sobs[o2].list = "listen"
              /\ sobs[o1].on = sobs[o2].on)
           => /\ \A j \in 1..Len(scalls) : scalls[j].o # o2
              /\ \E x \in raised : x.op = "listen"
    /\ \A j1, j2 \in 1..Len(scalls) :
           (j1 < j2 /\ scalls[j1].o = scalls[j2].o
              /\ sobs[scalls[j1].o].list = "listen")
           => scalls[j1].arg # scalls[j2].arg

\* how many times the callback o of a Stream was invoked
SInvoked(o) == Cardinality({j \in 1..Len(scalls) : scalls[j].o = o})

\* C27: a callback registered with onerror, oncancel, onfinish or onend on a
\* Stream that was terminal then has been invoked once (onerror with the stored
\* error) if it matches the outcome, onend matching every outcome, and never
\* if it does not.
C27_LateObserver ==
    \A o \in 1..Len(sobs) :
        (sobs[o].list \in {"errorCb", "cancelCb", "completedCb", "endCb"}
           /\ Terminal(sobs[o].was))
        => IF sobs[o].list \in {SListOf(sobs[o].was.tag), "endCb"}
           THEN /\ SInvoked(o) = 1
                /\ \A j \in 1..Len(scalls) :
                      (scalls[j].o = o /\ sobs[o].list = "errorCb")
                      => scalls[j].arg = sobs[o].was.val
           ELSE SInvoked(o) = 0

\* C28: the Future returned by publish for a schema-valid event is never
\* Rejected, and it is Resolved once the promise of every listener has settled
\* and no microtask is left (at once when there is no listener).
C28_PublishResolves ==
    \A k \in 1..Len(bus.pubs) :
        LET u == bus.pubs[k] IN
        u.valid
        => /\ pp[u.out].result.tag # 2
           /\ ((\A q \in u.jobs : np[q].st # "pending") /\ jobs = <<>>)
              => pp[u.out].result.tag = 1


\* C29: at no instant are more than max invocations of the implementation in
\* progress, whatever the calls and the completions: in every state, and at
\* every invocation (peak), the invocations in progress are at most max; the
\* counter running is never below their number.
C29_AtMostMax ==
    tm.made
    => /\ InProgress(tm) <= tm.max
       /\ tm.peak <= tm.max
       /\ InProgress(tm) <= tm.running
       /\ tm.running <= tm.max

\* max is 2, two invocations are in progress and a call is waiting, while a
\* task that waited was started by dequeue after an invocation that threw
C29_Witness ==
    /\ tm.made /\ tm.max = 2
    /\ InProgress(tm) = 2
    /\ tm.queue # <<>>
    /\ \E t \in 1..Len(tm.tasks) : tm.tasks[t].via = "queue" /\ tm.tasks[t].st = "running"
    /\ \E t \in 1..Len(tm.tasks) : tm.tasks[t].kind = "throw" /\ tm.tasks[t].st = "done"


\* the jobs of the batches 1..k, one after the other
RECURSIVE Batched(_)
Batched(k) == IF k = 0 THEN <<>> ELSE Batched(k - 1) \o batch.runs[k].promises

\* the Futures of a batch are all Pending, or each is Resolved with the result
\* at its own index, or all are Rejected with the error e
BatchOutcome(u, e) ==
    \/ \A j \in 1..Len(u.promises) : pp[u.promises[j]].result.tag = 0
    \/ \A j \in 1..Len(u.promises) :
           pp[u.promises[j]].result = Resolved(Ret(0, u.args[j]))
    \/ \A j \in 1..Len(u.promises) : pp[u.promises[j]].result = Rejected(e)

\* C30: the jobs submitted between the arming of the timer and its firing go,
\* in submission order, to one call of the implementation; each Future of the
\* batch resolves with the result at its own index, or all of them reject with
\* the error the implementation threw or rejected with; no job is in two
\* batches and at most one timer is pending.
C30_Batches ==
    /\ Batched(Len(batch.runs)) \o Promises(batch.queue) = [j \in 1..Len(pp) |-> j]
    /\ \A k \in 1..Len(batch.runs) :
           LET u == batch.runs[k] IN
           /\ u.promises # <<>>
           /\ u.args = [j \in 1..Len(u.promises) |-> batch.subs[u.promises[j]]]
           /\ BatchOutcome(u, IF u.q = 0 THEN Err(0) ELSE Err(1))
           /\ u.q = 0 => \A j \in 1..Len(u.promises) : pp[u.promises[j]].result.tag = 2
           /\ (u.q # 0 /\ jobs = <<>>)
              => \A j \in 1..Len(u.promises) :
                    pp[u.promises[j]].result.tag
                        = CASE np[u.q].st = "pending" -> 0
                            [] np[u.q].st = "fulfilled" -> 1
                            [] np[u.q].st = "rejected" -> 2
    /\ \A j \in 1..Len(batch.queue) :
           /\ batch.queue[j].arg = batch.subs[batch.queue[j].p]
           /\ pp[batch.queue[j].p].result.tag = 0
    /\ batch.timers = (IF batch.queue = <<>> THEN 0 ELSE 1)
    /\ batch.timer <=> batch.timers = 1

\* a batch of two jobs resolved each with its own result, a batch rejected by
\* the implementation and a batch whose implementation threw
C30_Witness ==
    /\ \E k \in 1..Len(batch.runs) :
           /\ Len(batch.runs[k].promises) = 2
           /\ batch.runs[k].args[1] # batch.runs[k].args[2]
           /\ \A j \in 1..2 : pp[batch.runs[k].promises[j]].result
                                  = Resolved(Ret(0, batch.runs[k].args[j]))
    /\ \E k \in 1..Len(batch.runs) :
           /\ batch.runs[k].q # 0
           /\ pp[batch.runs[k].promises[1]].result = Rejected(Err(1))
    /\ \E k \in 1..Len(batch.runs) :
           /\ batch.runs[k].q = 0
           /\ pp[batch.runs[k].promises[1]].result = Rejected(Err(0))


\* the calls of the application callback o, in order
CallsOf(o) == SelectSeq(scalls, LAMBDA c : c.o = o)

\* the items emitted on s while it had not terminated, in order
Live(s) == SelectSeq(ps[s].emitted, LAMBDA e : e.was \in {0, 1})

\* C31: for listen(cb) on a Stream that has not terminated, whatever the emits
\* before and after it and from inside cb, cb has received, after every call,
\* each item emitted before the termination exactly once, in emission order,
\* with the indexes 0, 1, 2, ...
C31_ListenInOrder ==
    \A o \in 1..Len(sobs) :
        (sobs[o].list = "listen" /\ sobs[o].first /\ ~Terminal(sobs[o].was))
        => CallsOf(o) = [k \in 1..Len(Live(sobs[o].on)) |->
                            [o |-> o, arg |-> Live(sobs[o].on)[k].v, i |-> k - 1]]

\* cb emits from inside: an item was buffered before listen, cb emitted the
\* second item while the buffer was flushed and the third inside the call
\* for the second, and received the three
C31_Witness ==
    \E o \in 1..Len(sobs) :
        /\ sobs[o].list = "listen" /\ sobs[o].act = "emit" /\ sobs[o].first
        /\ Len(sobs[o].kept) = 1
        /\ Len(CallsOf(o)) = 3
        /\ ~Terminal(ps[sobs[o].on].result)


\* the step is a call of emit on s
Emits(s) == s \in 1..Len(ps) /\ Len(ps'[s].emitted) = Len(ps[s].emitted) + 1

\* C32: once the buffer of s is flushed, an emit made before the termination
\* calls, within the emit, every observer that was registered through onnext
\* on s while s had not terminated, once, with the item: the observers keep
\* receiving the emits that follow their registration.
C32_Step ==
    \A s \in 1..Len(ps) :
        (Emits(s) /\ "unflusedData" \in ps[s].gone /\ ~Terminal(ps[s].result))
        => \A o \in 1..Len(sobs) :
              (sobs[o].on = s /\ sobs[o].list = "nextCb" /\ ~Terminal(sobs[o].was))
              => \E j \in NewSCalls :
                    /\ scalls'[j].o = o
                    /\ scalls'[j].arg = ps'[s].emitted[Len(ps'[s].emitted)].v

C32_FanOut == [][C32_Step]_vars


\* the callback list of the Future for the result tag t
MatchingList(t) ==
    CASE t = 1 -> "dataCb" [] t = 2 -> "errorCb" [] t = 3 -> "cancelCb"

\* the calls of the step, in order, of the callbacks of the list of p
StepCalls(p, list) ==
    SelectSeq(SubSeq(calls', Len(calls) + 1, Len(calls')),
              LAMBDA c : obs'[c.o].on = p /\ obs'[c.o].list = list)

\* C33: in the step in which a Pending Future p settles, the observers of the
\* matching outcome that were registered are each invoked once, in their
\* registration order, every registered onend observer is invoked once, each
\* after all the calls of the matching observers, and the lists are released
\* when the step is over.
C33_Step ==
    \A p \in 1..Len(pp) :
        (hist[p] = <<>> /\ hist'[p] # <<>>)
        => LET list == MatchingList(hist'[p][1].tag)
               own == StepCalls(p, list)
           IN  /\ Len(own) >= Len(pp[p][list])
               /\ \A k \in 1..Len(pp[p][list]) : own[k].o = pp[p][list][k].p
               /\ \A j, k \in 1..Len(own) : j < k => own[j].o < own[k].o
               /\ \A k \in 1..Len(pp[p].endCb) :
                     \E j \in NewCalls :
                        /\ calls'[j].o = pp[p].endCb[k].p
                        /\ \A m \in NewCalls :
                              (obs'[calls'[m].o].on = p /\ obs'[calls'[m].o].list = list)
                              => m < j
               /\ pp'[p].gone = CbNames

C33_SettlementOrder == [][C33_Step]_vars


\* the observer list of the Stream for the terminal result tag t
SMatchingList(t) ==
    CASE t = 2 -> "errorCb" [] t = 3 -> "cancelCb" [] t = 4 -> "completedCb"

\* the application callbacks of a list, in registration order
Observers(cbs) == [k \in 1..Len(cbs) |-> cbs[k].p]

\* in the step in which s terminates, the application callbacks the step calls
\* are those of the matching list in registration order, then those of endCb
\* in registration order, and no other
SettlesInOrder(s) ==
    [j \in 1..(Len(scalls') - Len(scalls)) |-> scalls'[Len(scalls) + j].o]
        = Observers(ps[s][SMatchingList(ps'[s].result.tag)]) \o Observers(ps[s].endCb)

\* C34: return, throw and cancel on a Stream that has not terminated invoke
\* the observers of the matching set in registration order, then every onend
\* observer, and no observer of another set; after the call the lists of the
\* terminal observers (onfinish, onerror, oncancel, onend) are released.
C34_Step ==
    \A s \in 1..Len(ps) :
        (~Terminal(ps[s].result) /\ Terminal(ps'[s].result))
        => /\ SettlesInOrder(s)
           /\ {"completedCb", "errorCb", "cancelCb", "endCb"} \subseteq ps'[s].gone

C34_StreamSettlement == [][C34_Step]_vars


\* the items the Stream s holds in its buffer
Buffered(s) == IF "unflusedData" \in ps[s].gone THEN <<>> ELSE ps[s].unflusedData

\* C35: a Stream in a terminal state holds no buffered items: the buffer was
\* flushed before, or it was dropped when the Stream terminated.
C35_NoBufferWhenTerminal ==
    \A s \in 1..Len(ps) : Terminal(ps[s].result) => Buffered(s) = <<>>


\* C36: a call of listen(cb) on a Stream that terminated before any listen
\* and still has its buffer throws nothing, invokes cb for every item emitted
\* before the termination, in emission order with the indexes 0, 1, 2, ...,
\* and leaves the Stream without its buffer and without its onnext list -
\* also on a Stream built by PStream.emit(value).
C36_Step ==
    \A s \in 1..Len(ps) :
        (FirstListen(s) /\ Terminal(ps[s].result))
        => /\ raised' = raised
           /\ SelectSeq(SubSeq(scalls', Len(scalls) + 1, Len(scalls')),
                        LAMBDA c : c.o = Len(sobs'))
                 = [k \in 1..Len(Live(s)) |->
                       [o |-> Len(sobs'), arg |-> Live(s)[k].v, i |-> k - 1]]
           /\ {"unflusedData", "nextCb"} \subseteq ps'[s].gone

C36_ListenAfterEnd == [][C36_Step]_vars


\* the number of elements whose value _allResolveCb has stored
SettledCount(st) == Cardinality({j \in 1..Len(st.result) : st.result[j] # Undef})

\* C37: the completion test of all/allCompleted (the running sum of weights
\* against len * (len + 1) / 2) does what a plain count does: as long as no
\* element was rejected and the aggregate was not cancelled, the aggregate is
\* Resolved exactly when the number of elements settled successfully is len,
\* for every len >= 0 and every completion order.
C37_PlainCount ==
    \A sid \in 1..Len(ast) :
        LET st == ast[sid] IN
        (~st.err /\ pp[st.promise].result.tag \in {0, 1})
        => (pp[st.promise].result.tag = 1 <=> SettledCount(st) = Len(st.result))


\* the result an awaitable that has settled hands on: its value, its error,
\* or the cancellation sentinel
Outcome(x) == IF ElemOk(x) THEN Resolved(ElemVal(x)) ELSE Rejected(ElemError(x))

\* the results the application's own calls give: port.return(1), port.throw(1),
\* cancel()
Direct == {Resolved(Num(1)), Rejected(Err(1)), Canceled}

\* the port.return(awaitable) calls made on p while p was Pending
Awaited(p) == {j \in 1..Len(awaits) : awaits[j].p = p /\ awaits[j].was = 0}

\* C38: a Future resolved with an awaitable is Pending as long as no awaitable
\* it was resolved with has settled (and no other call settled it); when
\* the microtasks have run and an awaitable has settled, the Future holds the
\* unwrapped outcome of one of them, however deep the awaitables are nested,
\* or the result of a call that settled it before; and an outcome that comes
\* after the Future has a result is ignored: the result stays what it was.
C38_AwaitableResolve ==
    \A p \in Range(roots) :
        /\ \A k \in 1..Len(hist[p]) : hist[p][k] = hist[p][1]
        /\ pp[p].result.tag # 0
           => \/ pp[p].result \in Direct
              \/ \E j \in Awaited(p) :
                    ElemSettled(awaits[j].x) /\ pp[p].result = Outcome(awaits[j].x)
        /\ (jobs = <<>> /\ \E j \in Awaited(p) : ElemSettled(awaits[j].x))
           => pp[p].result.tag # 0
        /\ \A j \in Awaited(p) :
              (hist[p] = <<>> /\ awaits[j].x.k = "np" /\ Cardinality(Awaited(p)) = 1)
              => np[awaits[j].x.n].st = "pending" \/ jobs # <<>>


\* the elements of an aggregate's data that are PPromises
PElems(a) == {a.data[j].n : j \in {k \in 1..Len(a.data) : a.data[k].k = "pp"}}

\* the application has called cancel() on the Pending aggregate a in this step
CancelsAgg(a) == a.out \in ucancel' \ ucancel

\* C39: the call of cancel() on the Pending Future returned by
\* all(elements, bindCancel) leaves it Canceled; with bindCancel every element
\* that is a cancelable Pending PPromise is Canceled by the call, and no other
\* element changes; without bindCancel no element changes.
C39_Step ==
    \A a \in Alls :
        CancelsAgg(a)
        => /\ pp'[a.out].result = Canceled
           /\ \A e \in PElems(a) :
                 pp'[e].result = IF a.bind /\ pp[e].cancelable /\ pp[e].result.tag = 0
                                 THEN Canceled ELSE pp[e].result
C39_CancelAll == [][C39_Step]_vars

\* then(f?, g) with onrejected
ThenG == {r \in Derived : r.h = ThrowCancel /\ r.g.n # "none"}

\* the calls of g with the cancellation sentinel that _pipe made for r.d
SentinelCalls(r) ==
    {j \in 1..Len(tcalls) :
        tcalls[j].f = r.g /\ tcalls[j].p = r.d /\ tcalls[j].arg = CancelError}

\* C40: for d = s.then(f?, g) made on a Pending s: once s has been cancelled, g
\* has been called exactly once with the CancelError, and d is Resolved with what
\* g returned for it (not Rejected with the CancelError).
C40_ThenCatchesCancel ==
    \A r \in ThenG :
        (r.was = 0 /\ Became(r.s, Canceled))
        => /\ Cardinality(SentinelCalls(r)) = 1
           /\ pp[r.d].result = Resolved(Ret(r.g.p, CancelError))

============================================================================
